---- MODULE Spec2Model ----
(***************************************************************************)
(* State-machine model of the calendar extension (einord/stina-ext-calendar):*)
(* the event cache repository, the sync orchestrator, the credential        *)
(* refresher and the per-user worker loop with its reminder phase.          *)
(*                                                                          *)
(* Time is counted in minutes.  Strings the code treats as opaque (ids,     *)
(* uids, titles, tokens) are drawn from small sets.  The fields of an event *)
(* that upsertByUid copies verbatim (calendarId, description, location,     *)
(* allDay, recurrenceRule, organizer, attendees, remoteUrl, etag, rawIcs)   *)
(* are represented by the one field title.                                  *)
(***************************************************************************)
EXTENDS Integers, Sequences, FiniteSets, TLC

VARIABLES
  events,      \* the 'events' collection: a set of EventDocument rows, keyed by id
  clock,       \* Date.now(), in minutes
  nextId,      \* how many ids generateId has handed out, plus one
  ret,         \* what the last repository call returned
  accounts,    \* the 'accounts' collection: account id -> AccountDocument (or NoAccountDoc)
  secrets,     \* the secret store: account id -> stored credential payload (or NoSecret)
  config,      \* CredentialRefreshConfig: which OAuth client settings are present
  tokenLog,    \* the refresh-token grants sent to the token endpoints, in order
  credRet,     \* what the last ensureFreshCredentials call did and returned
  syncState,   \* the 'syncState' collection: account id -> SyncStateDocument (or NoSyncState)
  remote,      \* what the calendar servers hold: a set of remote items
  pass,        \* the sync pass over the user's accounts that is under way, and what it did
  syncRet,     \* what the last syncAccountEvents call met and did
  toolLog,     \* the events cal_events_create has created, and the last write tool's result
  tasks,       \* the background tasks of the user: task id -> position and local state
  workerDisposables,  \* the worker registered for the user (or NoWorker)
  sink,        \* (uid, startAt) -> how many reminders chat.appendInstruction has accepted
  remRet,      \* what the last iteration of the reminder loop met and did
  settings,    \* the user's settings
  chat,        \* whether the host provides the chat API
  procs,       \* the callers that run at the same time: caller -> position and local values
  raceLog      \* the grant the token endpoint answered last, and who has written which uid

repoVars == <<events, clock, nextId, ret>>
acctVars == <<accounts, secrets, config, tokenLog, credRet>>
syncVars == <<syncState, remote, pass, syncRet, toolLog>>
remVars == <<tasks, workerDisposables, sink, remRet, settings, chat>>
raceVars == <<procs, raceLog>>

vars == <<events, clock, nextId, ret, accounts, secrets, config, tokenLog, credRet,
          syncState, remote, pass, syncRet, toolLog,
          tasks, workerDisposables, sink, remRet, settings, chat,
          procs, raceLog>>

----------------------------------------------------------------------------
(* Bounds of the model *)

MaxClock == 1          \* the clock runs from 0 to MaxClock
MaxIds == 2            \* ids generateId can hand out

AccountIds == {"a1", "a2"}
Uids == {"u1", "u2"}

NoAccount == ""        \* options.accountId absent (falsy)
NoTime == -1           \* options.from / options.to absent

(* What a caller can put into the fields of an event other than its uid: two
   payloads that differ in every field *)
Payloads ==
  { [title |-> "t1", startAt |-> 0, endAt |-> 1, responseStatus |-> "undefined"],
    [title |-> "t2", startAt |-> 1, endAt |-> 2, responseStatus |-> "declined"] }

(* The event payloads handed to upsertByUid: Omit<CalendarEvent, id|createdAt|updatedAt> *)
EventInputs ==
  {[uid |-> u, title |-> p.title, startAt |-> p.startAt, endAt |-> p.endAt,
    responseStatus |-> p.responseStatus] : u \in Uids, p \in Payloads}

NoDoc ==
  [id |-> 0, accountId |-> "", uid |-> "", title |-> "", startAt |-> 0, endAt |-> 0,
   responseStatus |-> "null", createdAt |-> 0, updatedAt |-> 0]

----------------------------------------------------------------------------
(* Accounts and credentials *)

Providers == {"ical", "google", "icloud", "outlook", "caldav"}

NaNTime == -1000       \* new Date(s).getTime() of a string that is no date: NaN

NoAccountDoc ==
  [provider |-> "", authType |-> "", enabled |-> FALSE, lastError |-> "null",
   lastSyncAt |-> NoTime]

(* No SyncStateDocument is stored for the account *)
NoSyncState == [present |-> FALSE, syncToken |-> "null", deltaLink |-> "null"]

(* (SyncStateDocTokenOnly: the deltaLink is not stored) *)
SyncStateDocTokenOnly(syncToken, deltaLink) ==
  [present |-> TRUE, syncToken |-> syncToken, deltaLink |-> "null"]

(* The document syncState.upsert(accountId, syncToken, deltaLink) stores *)
SyncStateDoc(syncToken, deltaLink) ==
  [present |-> TRUE, syncToken |-> syncToken, deltaLink |-> deltaLink]

NoSecret == [type |-> "missing", accessToken |-> 0, refreshToken |-> 0, expiresAt |-> NaNTime]

NoConfig == [googleClientId |-> FALSE, googleClientSecret |-> FALSE]

OAuth2Credentials(accessToken, refreshToken, expiresAt) ==
  [type |-> "oauth2", accessToken |-> accessToken, refreshToken |-> refreshToken,
   expiresAt |-> expiresAt]

PasswordCredentials == [type |-> "password", accessToken |-> 0, refreshToken |-> 0, expiresAt |-> NaNTime]

NoCredentials == [type |-> "none", accessToken |-> 0, refreshToken |-> 0, expiresAt |-> NaNTime]

(* loadCredentials: the stored payload, or an empty payload of the account's authType
   (expiresAt '' is no date) *)
LoadCredentials(stored, authType) ==
  IF stored # NoSecret THEN stored
  ELSE IF authType = "oauth2" THEN OAuth2Credentials(0, 0, NaNTime)
  ELSE IF authType = "password" THEN PasswordCredentials
  ELSE NoCredentials

(* accounts.get(id) / one element of accounts.list(): the document with its credentials *)
AccountOf(id) ==
  [id |-> id, provider |-> accounts[id].provider, authType |-> accounts[id].authType,
   enabled |-> accounts[id].enabled, lastError |-> accounts[id].lastError,
   credentials |-> LoadCredentials(secrets[id], accounts[id].authType)]

----------------------------------------------------------------------------
(* Credential refresher *)

ExpiryBufferMinutes == 5     \* isTokenExpired(expiresAt, bufferMinutes = 5)
MaxTokenRequests == 2        \* refresh grants the model lets the endpoints receive

(* Date.now() >= expirationTime - bufferMs; every comparison with NaN is false.
   (IsTokenExpiredStrict: > written for >=) *)
IsTokenExpiredStrict(expiresAt, now) ==
  expiresAt # NaNTime /\ now > expiresAt - ExpiryBufferMinutes

IsTokenExpired(expiresAt, now) ==
  expiresAt # NaNTime /\ now >= expiresAt - ExpiryBufferMinutes

IsOutlookTokenExpired(expiresAt, now) ==
  expiresAt # NaNTime /\ now >= expiresAt - ExpiryBufferMinutes

(* What a token endpoint can answer to a refresh grant: a rejection, or a token
   response with or without a new refresh_token and with some expires_in *)
TokenResponses ==
  {[ok |-> FALSE, rotates |-> FALSE, expiresIn |-> 0]} \cup
  [ok : {TRUE}, rotates : BOOLEAN, expiresIn : {2, 10}]

(* refreshAccessToken's TokenResponse made into the new OAuth2Credentials; serial
   names the tokens the endpoint issues in this grant
   (RefreshedCredentialsNoFallback: data.refresh_token taken as it is, 0 when
   the endpoint returned none) *)
RefreshedCredentialsNoFallback(oauth, resp, now, serial) ==
  OAuth2Credentials(serial, IF resp.rotates THEN serial ELSE 0, now + resp.expiresIn)

RefreshedCredentials(oauth, resp, now, serial) ==
  OAuth2Credentials(serial,
                    IF resp.rotates THEN serial ELSE oauth.refreshToken,
                    now + resp.expiresIn)

(* ensureFreshCredentials: what it does for an account as loaded by the caller.
   grant: whether a refresh-token grant is sent; outcome "error": it throws
   (EnsureFreshResultLenient: the stored credentials are returned when the
   Google configuration is missing or the grant is rejected) *)
EnsureFreshResultLenient(account, cfg, now, resp, serial) ==
  LET oauth == account.credentials
      unchanged == [outcome |-> "unchanged", grant |-> FALSE, credentials |-> oauth]
      refreshed == [outcome |-> "refreshed", grant |-> TRUE,
                    credentials |-> RefreshedCredentials(oauth, resp, now, serial)]
  IN IF oauth.type # "oauth2" THEN unchanged
     ELSE IF account.provider = "google"
       THEN IF ~IsTokenExpired(oauth.expiresAt, now) THEN unchanged
            ELSE IF ~cfg.googleClientId \/ ~cfg.googleClientSecret THEN unchanged
            ELSE IF resp.ok THEN refreshed ELSE [unchanged EXCEPT !.grant = TRUE]
     ELSE IF account.provider = "outlook"
       THEN IF ~IsOutlookTokenExpired(oauth.expiresAt, now) THEN unchanged
            ELSE IF resp.ok THEN refreshed ELSE [unchanged EXCEPT !.grant = TRUE]
     ELSE unchanged

EnsureFreshResult(account, cfg, now, resp, serial) ==
  LET oauth == account.credentials
      unchanged == [outcome |-> "unchanged", grant |-> FALSE, credentials |-> oauth]
      thrown(g) == [outcome |-> "error", grant |-> g, credentials |-> oauth]
      refreshed == [outcome |-> "refreshed", grant |-> TRUE,
                    credentials |-> RefreshedCredentials(oauth, resp, now, serial)]
  IN IF oauth.type # "oauth2" THEN unchanged
     ELSE IF account.provider = "google"
       THEN IF ~IsTokenExpired(oauth.expiresAt, now) THEN unchanged
            ELSE IF ~cfg.googleClientId \/ ~cfg.googleClientSecret THEN thrown(FALSE)
            ELSE IF resp.ok THEN refreshed ELSE thrown(TRUE)
     ELSE IF account.provider = "outlook"
       THEN IF ~IsOutlookTokenExpired(oauth.expiresAt, now) THEN unchanged
            ELSE IF resp.ok THEN refreshed ELSE thrown(TRUE)
     ELSE unchanged

(* accountsRepo.updateCredentials: nothing is saved when the document is gone *)
UpdateCredentials(sec, id, credentials) ==
  IF accounts[id] # NoAccountDoc THEN [sec EXCEPT ![id] = credentials] ELSE sec

NoCredRet ==
  [account |-> "", at |-> 0, provider |-> "", before |-> NoSecret, outcome |-> "none",
   grant |-> FALSE, credentials |-> NoSecret]

(* The effect of one ensureFreshCredentials call on the secret store and the
   endpoints' log *)
TokenLogAfter(account, r) ==
  IF r.grant
  THEN Append(tokenLog, [account |-> account.id,
                         refreshToken |-> account.credentials.refreshToken])
  ELSE tokenLog

SecretsAfter(account, r) ==
  IF r.outcome = "refreshed" THEN UpdateCredentials(secrets, account.id, r.credentials)
  ELSE secrets

(* ensureFreshCredentials(account, repo.accounts, config) on the account as
   accounts.get(id) has just loaded it *)
EnsureFreshCredentials(id, resp) ==
  /\ accounts[id] # NoAccountDoc
  /\ LET account == AccountOf(id)
         r == EnsureFreshResult(account, config, clock, resp, Len(tokenLog) + 1)
     IN /\ r.grant => Len(tokenLog) < MaxTokenRequests
        /\ tokenLog' = TokenLogAfter(account, r)
        /\ secrets' = SecretsAfter(account, r)
        /\ credRet' = [account |-> id, at |-> clock, provider |-> account.provider,
                       before |-> account.credentials, outcome |-> r.outcome,
                       grant |-> r.grant, credentials |-> r.credentials]
  /\ UNCHANGED <<repoVars, accounts, config, syncVars, remVars, raceVars>>

----------------------------------------------------------------------------
(* Storage primitives on the 'events' collection *)

StoragePut(coll, id, doc) == {r \in coll : r.id # id} \cup {doc}

StorageDelete(coll, id) == {r \in coll : r.id # id}

StorageDeleteMany(coll, accountId) == {r \in coll : r.accountId # accountId}

----------------------------------------------------------------------------
(* EventsRepository *)

(* event.responseStatus ?? null *)
NullishToNull(v) == IF v = "undefined" THEN "null" ELSE v

(* storage.findOne(events, {accountId, uid}): the rows the query matches; findOne
   returns one of them, or null when there is none.
   (FindByUidNoMatch: the query names a field the documents do not carry;
   FindByUidAnyAccount: the query names the uid only) *)
FindByUidNoMatch(coll, accountId, uid) == {}

FindByUidAnyAccount(coll, accountId, uid) == {r \in coll : r.uid = uid}

FindByUid(coll, accountId, uid) ==
  {r \in coll : r.accountId = accountId /\ r.uid = uid}

(* The EventDocument upsertByUid builds: for an existing row with its id and
   createdAt, for a new row with a fresh id and createdAt = now.
   (EventDocResetsCreatedAt: createdAt taken from now on both paths) *)
EventDocResetsCreatedAt(id, accountId, event, createdAt, now) ==
  [id |-> id, accountId |-> accountId, uid |-> event.uid, title |-> event.title,
   startAt |-> event.startAt, endAt |-> event.endAt,
   responseStatus |-> NullishToNull(event.responseStatus),
   createdAt |-> now, updatedAt |-> now]

EventDoc(id, accountId, event, createdAt, now) ==
  [id |-> id, accountId |-> accountId, uid |-> event.uid, title |-> event.title,
   startAt |-> event.startAt, endAt |-> event.endAt,
   responseStatus |-> NullishToNull(event.responseStatus),
   createdAt |-> createdAt, updatedAt |-> now]

(* upsertByUid as one uninterrupted call *)
UpsertByUid(accountId, event) ==
  /\ LET found == FindByUid(events, accountId, event.uid) IN
     IF found # {}
     THEN \E existing \in found :
            LET doc == EventDoc(existing.id, accountId, event, existing.createdAt, clock) IN
            /\ events' = StoragePut(events, existing.id, doc)
            /\ ret' = [op |-> "upsert_existing", doc |-> doc]
            /\ UNCHANGED nextId
     ELSE /\ nextId <= MaxIds
          /\ LET doc == EventDoc(nextId, accountId, event, clock, clock) IN
             /\ events' = StoragePut(events, nextId, doc)
             /\ ret' = [op |-> "upsert_new", doc |-> doc]
          /\ nextId' = nextId + 1
  /\ UNCHANGED <<clock, acctVars, syncVars, remVars, raceVars>>

(* delete(id): false when the row is missing *)
DeleteEvent(id) ==
  /\ IF \E r \in events : r.id = id
     THEN /\ events' = StorageDelete(events, id)
          /\ ret' = [op |-> "delete_true", doc |-> NoDoc]
     ELSE /\ UNCHANGED events
          /\ ret' = [op |-> "delete_false", doc |-> NoDoc]
  /\ UNCHANGED <<clock, nextId, acctVars, syncVars, remVars, raceVars>>

DeleteByAccount(accountId) ==
  /\ events' = StorageDeleteMany(events, accountId)
  /\ ret' = [op |-> "deleteByAccount", doc |-> NoDoc]
  /\ UNCHANGED <<clock, nextId, acctVars, syncVars, remVars, raceVars>>

(* Time passes between calls *)
Tick ==
  /\ clock < MaxClock
  /\ clock' = clock + 1
  /\ UNCHANGED <<events, nextId, ret, acctVars, syncVars, remVars, raceVars>>

----------------------------------------------------------------------------
(* list() and getUpcoming() *)

(* storage.find(..., {sort: {startAt: 'asc'}}): every order of the matching rows
   that is ascending in startAt (rows with equal startAt come in any order) *)
RECURSIVE SortedByStartAt(_)
SortedByStartAt(rows) ==
  LET starts == {r.startAt : r \in rows} IN
  IF rows = {} THEN {<< >>}
  ELSE IF Cardinality(starts) = 1
  THEN UNION {{<<f>> \o s : s \in SortedByStartAt(rows \ {f})} : f \in rows}
  ELSE LET middle == CHOOSE v \in starts :
                       Cardinality({w \in starts : w < v}) = Cardinality(starts) \div 2
       IN {a \o b : a \in SortedByStartAt({r \in rows : r.startAt < middle}),
                    b \in SortedByStartAt({r \in rows : r.startAt >= middle})}

Take(s, n) == IF n >= Len(s) THEN s ELSE SubSeq(s, 1, n)

(* Array.prototype.slice(lo, hi), 0-based, hi exclusive *)
Slice(s, lo, hi) ==
  IF lo >= Len(s) THEN << >> ELSE SubSeq(s, lo + 1, IF hi > Len(s) THEN Len(s) ELSE hi)

StorageFind(coll, accountId, lim) ==
  LET matching == IF accountId # NoAccount
                  THEN {r \in coll : r.accountId = accountId}
                  ELSE coll
  IN {Take(s, lim) : s \in SortedByStartAt(matching)}

(* filtered.filter(d => d.responseStatus !== 'declined')
   (NotDeclinedOff: the filter left out) *)
NotDeclinedOff(d) == TRUE

NotDeclined(d) == d.responseStatus # "declined"

ListFilter(d, from, to) ==
  /\ (from # NoTime => d.endAt >= from)
  /\ (to # NoTime => d.startAt <= to)
  /\ NotDeclined(d)

(* The results list(options) can return in cache state coll *)
List(coll, accountId, from, to, limit, offset) ==
  {Slice(SelectSeq(docs, LAMBDA d : ListFilter(d, from, to)), offset, offset + limit) :
     docs \in StorageFind(coll, accountId, limit + offset)}

UpcomingLimit == 200

GetUpcoming(coll, fromDate, toDate) ==
  List(coll, NoAccount, fromDate, toDate, UpcomingLimit, 0)

----------------------------------------------------------------------------
(* The calendar servers *)

(* No pass has run, no syncAccountEvents call and no create call has been made *)
NoPass ==
  [stage |-> "idle", mode |-> "context", list |-> << >>, idx |-> 1, aborted |-> FALSE,
   called |-> {}, failed |-> {}, unrecorded |-> {}, due |-> {}, emitted |-> FALSE]

NoSyncRet ==
  [op |-> "none", account |-> "", called |-> FALSE, provider |-> "", hadToken |-> FALSE,
   stage |-> "none", fetched |-> FALSE, returned |-> {}, deletedUids |-> {}, removed |-> {},
   syncToken |-> "null", deltaLink |-> "null"]

NoToolLog == [created |-> {}, error |-> "null", op |-> "none", requested |-> FALSE]

RemoteIds == <<"r1", "r3">>

(* The items other clients can put on the servers.  id is the item's id on a
   Google or Graph server, or the object's file name on a CalDAV server; iCalUID
   is the item's iCalUID / iCalUId, or the UID property of the VEVENT ("" when the
   server sends none); partstat is the PARTSTAT of the attendee whose address is
   the account's user name ("" when there is no such attendee).  Every item is a
   single event inside the sync window. *)
RemoteItems ==
  {[account |-> "a1", id |-> "r1", iCalUID |-> "u1", title |-> "t1", startAt |-> 0,
    status |-> "confirmed", partstat |-> ""],
   [account |-> "a1", id |-> "r1", iCalUID |-> "", title |-> "t1", startAt |-> 0,
    status |-> "confirmed", partstat |-> ""],
   [account |-> "a2", id |-> "r3", iCalUID |-> "u3", title |-> "t1", startAt |-> 0,
    status |-> "confirmed", partstat |-> ""]}

IcsProviders == {"ical", "icloud", "caldav"}

RECURSIVE ItemSeq(_, _)
(* The items of S in the order a server lists them *)
ItemSeq(S, i) ==
  IF i > Len(RemoteIds) THEN << >>
  ELSE (IF \E it \in S : it.id = RemoteIds[i]
        THEN <<CHOOSE it \in S : it.id = RemoteIds[i]>> ELSE << >>) \o ItemSeq(S, i + 1)

(* Another client adds an event on the server of an account.  The servers change
   between passes; what is remembered of the last pass is dropped then *)
RemoteAdd(item) ==
  /\ pass.stage # "running"
  /\ accounts[item.account] # NoAccountDoc
  /\ accounts[item.account].provider \in IcsProviders => item.iCalUID # ""
  /\ \A it \in remote : it.id # item.id
  /\ remote' = remote \cup {item}
  /\ pass' = NoPass
  /\ syncRet' = NoSyncRet
  /\ UNCHANGED <<repoVars, acctVars, syncState, toolLog, remVars, raceVars>>

(* Another client deletes an event: Google keeps the item with status
   "cancelled", the other servers no longer list it *)
RemoteCancel(id) ==
  /\ pass.stage # "running"
  /\ \E it \in remote :
       /\ it.id = id /\ it.status = "confirmed"
       /\ remote' = IF accounts[it.account].provider = "google"
                    THEN (remote \ {it}) \cup {[it EXCEPT !.status = "cancelled"]}
                    ELSE remote \ {it}
  /\ pass' = NoPass
  /\ syncRet' = NoSyncRet
  /\ UNCHANGED <<repoVars, acctVars, syncState, toolLog, remVars, raceVars>>

----------------------------------------------------------------------------
(* The providers *)

RegisteredProviders == {"ical", "google", "icloud", "outlook", "caldav"}

(* An event a Google or Graph sync returns: the providers set no responseStatus *)
SyncedEvent(uid, title, startAt) ==
  [uid |-> uid, title |-> title, startAt |-> startAt, endAt |-> startAt + 1,
   responseStatus |-> "undefined"]

(* item.iCalUID || item.id in GoogleCalendarProvider.syncEvents and .createEvent
   (GoogleItemIdOnly: item.id alone) *)
GoogleItemIdOnly(item) == item.id

GoogleSyncUid(item) == IF item.iCalUID # "" THEN item.iCalUID ELSE item.id

GoogleCreatedUid(item) == IF item.iCalUID # "" THEN item.iCalUID ELSE item.id

(* item.iCalUId || item.id in OutlookCalendarProvider.syncEvents and .createEvent *)
OutlookSyncUid(item) == IF item.iCalUID # "" THEN item.iCalUID ELSE item.id

OutlookCreatedUid(item) == IF item.iCalUID # "" THEN item.iCalUID ELSE item.id

(* generateICalEvent: a VCALENDAR with one VEVENT whose UID is the uid given and
   that carries no RRULE *)
GenerateICalEvent(input, uid) ==
  [uid |-> uid, summary |-> input.title, dtstart |-> input.startAt, rrule |-> FALSE]

(* The calendar object a CalDAV server or an iCal feed holds for an item *)
ObjectData(item) ==
  [uid |-> item.iCalUID, summary |-> item.title, dtstart |-> item.startAt, rrule |-> FALSE,
   partstat |-> item.partstat]

(* buildEvent's switch (partstat): the responseStatus of the current user *)
ResponseStatusOf(partstat) ==
  CASE partstat = "ACCEPTED" -> "accepted"
    [] partstat = "DECLINED" -> "declined"
    [] partstat = "TENTATIVE" -> "tentative"
    [] partstat = "NEEDS-ACTION" -> "needsAction"
    [] OTHER -> "null"

(* parseICalData on a VEVENT that is not recurring: one event with the UID read
   from the data; the responseStatus is resolved when a userEmail is given *)
ParseICalData(data, hasUserEmail) ==
  <<[uid |-> data.uid, title |-> data.summary, startAt |-> data.dtstart,
     endAt |-> data.dtstart + 1,
     responseStatus |-> IF hasUserEmail THEN ResponseStatusOf(data.partstat) ELSE "null"]>>

(* What the server answers to one syncEvents call: whether a request fails, for
   a Google request with a syncToken the delta it returns, and for a Graph
   request whether the last page carries an @odata.deltaLink *)
FetchOutcomes == {"ok", "error", "calendarError"}

Fetches(account, syncToken) ==
  {[outcome |-> o, delta |-> {}] :
     o \in IF account.provider = "google" THEN FetchOutcomes
           ELSE IF account.provider = "outlook" THEN {"ok", "okDeltaLink", "error"}
           ELSE {"ok", "error"}}
  \cup (IF account.provider = "google" /\ syncToken # "null"
        THEN {[outcome |-> "ok", delta |-> d] :
                d \in SUBSET {it \in remote : it.account = account.id}}
        ELSE {})

NoSyncResult ==
  [threw |-> TRUE, events |-> << >>, sources |-> << >>, deletedUids |-> << >>,
   syncToken |-> "null", deltaLink |-> "null"]

(* GoogleCalendarProvider.syncEvents for an account with one calendar: with a
   syncToken the items of the delta, without one the events of the window; an
   events request that fails is skipped *)
GoogleSyncEvents(credentials, syncToken, items, fetch) ==
  IF credentials.type # "oauth2" \/ fetch.outcome = "error" THEN NoSyncResult
  ELSE IF fetch.outcome = "calendarError"
  THEN [NoSyncResult EXCEPT !.threw = FALSE]
  ELSE LET listed == IF syncToken # "null" THEN fetch.delta
                     ELSE {it \in items : it.status = "confirmed"}
           all == ItemSeq(listed, 1)
           live == SelectSeq(all, LAMBDA it : it.status # "cancelled")
           dead == SelectSeq(all, LAMBDA it : it.status = "cancelled")
       IN [threw |-> FALSE,
           events |-> [i \in 1..Len(live) |-> SyncedEvent(GoogleSyncUid(live[i]), live[i].title, live[i].startAt)],
           sources |-> [i \in 1..Len(live) |-> live[i].id],
           deletedUids |-> [i \in 1..Len(dead) |-> GoogleSyncUid(dead[i])],
           syncToken |-> "s1", deltaLink |-> "null"]

(* OutlookCalendarProvider.syncEvents: always the whole calendar view *)
OutlookSyncEvents(credentials, items, fetch) ==
  IF credentials.type # "oauth2" \/ fetch.outcome \notin {"ok", "okDeltaLink"} THEN NoSyncResult
  ELSE LET live == ItemSeq({it \in items : it.status = "confirmed"}, 1)
       IN [threw |-> FALSE,
           events |-> [i \in 1..Len(live) |-> SyncedEvent(OutlookSyncUid(live[i]), live[i].title, live[i].startAt)],
           sources |-> [i \in 1..Len(live) |-> live[i].id],
           deletedUids |-> << >>,
           syncToken |-> "null",
           deltaLink |-> IF fetch.outcome = "okDeltaLink" THEN "d1" ELSE "null"]

(* CalDavProvider.syncEvents (ICloudProvider inherits it) and
   ICalProvider.syncEvents: every object parsed; needPassword: createDavClient
   throws unless the credentials are a password, and the user name of the
   password credentials is the userEmail of the parse *)
IcsSyncEvents(credentials, items, fetch, needPassword) ==
  IF (needPassword /\ credentials.type # "password") \/ fetch.outcome # "ok" THEN NoSyncResult
  ELSE LET live == ItemSeq({it \in items : it.status = "confirmed"}, 1)
           parsed == [i \in 1..Len(live) |->
                        ParseICalData(ObjectData(live[i]), needPassword)[1]]
       IN [threw |-> FALSE,
           events |-> parsed,
           sources |-> [i \in 1..Len(live) |-> live[i].id],
           deletedUids |-> << >>,
           syncToken |-> "null", deltaLink |-> "null"]

(* provider.syncEvents(account, credentials, from, to, syncToken) *)
ProviderSyncEvents(account, credentials, syncToken, items, fetch) ==
  IF account.provider = "google" THEN GoogleSyncEvents(credentials, syncToken, items, fetch)
  ELSE IF account.provider = "outlook" THEN OutlookSyncEvents(credentials, items, fetch)
  ELSE IcsSyncEvents(credentials, items, fetch, account.provider # "ical")

----------------------------------------------------------------------------
(* The sync orchestrator *)

(* The call of syncAccountEvents the environment makes fail: none, the first
   upsertByUid, the first tombstone's lookup, syncState.upsert, or
   updateSyncStatus(id, null) *)
Faults == {"none", "upsert", "delete", "cursor", "status"}

(* What the token endpoint answers during a sync *)
SyncTokenResponses ==
  {[ok |-> FALSE, rotates |-> FALSE, expiresIn |-> 0],
   [ok |-> TRUE, rotates |-> FALSE, expiresIn |-> 10]}

(* The answers that matter to a call for this account: one when no grant is sent *)
TokenResponsesFor(account) ==
  IF \E resp \in SyncTokenResponses :
       EnsureFreshResult(account, config, clock, resp, Len(tokenLog) + 1).grant
  THEN SyncTokenResponses
  ELSE {[ok |-> FALSE, rotates |-> FALSE, expiresIn |-> 0]}

(* error instanceof Error ? error.message : String(error): some string, never null *)
ErrorMessage(stage) == "error"

(* The message of the error ensureFreshCredentials throws: its own when the
   Google configuration is missing, refreshAccessToken's when the grant was sent
   and rejected *)
CredentialsMessage(grant) ==
  IF grant THEN "Failed to refresh token"
  ELSE "Google OAuth configuration missing for token refresh"

(* upsertByUid as a function of the collection: the new collection, the next id
   and whether a new id was needed that the model cannot hand out *)
UpsertInto(coll, nid, accountId, event, now) ==
  LET found == FindByUid(coll, accountId, event.uid) IN
  IF found # {}
  THEN LET existing == CHOOSE r \in found : TRUE IN
       [events |-> StoragePut(coll, existing.id,
                              EventDoc(existing.id, accountId, event, existing.createdAt, now)),
        nextId |-> nid, id |-> existing.id]
  ELSE [events |-> StoragePut(coll, nid, EventDoc(nid, accountId, event, now, now)),
        nextId |-> nid + 1, id |-> nid]

(* (SyncUpsertInputWithStatus: responseStatus: event.responseStatus ?? null, as
   the cal_events_sync tool writes it) *)
SyncUpsertInputWithStatus(event) ==
  [event EXCEPT !.responseStatus = NullishToNull(event.responseStatus)]

(* The object syncAccountEvents hands to upsertByUid for an event of the sync
   result: its field list names no responseStatus *)
SyncUpsertInput(event) == [event EXCEPT !.responseStatus = "undefined"]

SyncUpsertInputs(evs) == [i \in 1..Len(evs) |-> SyncUpsertInput(evs[i])]

RECURSIVE UpsertEach(_, _, _, _, _, _)
(* for (const event of syncResult.events) await upsertByUid(...); the failAt-th
   call throws (0: none does) *)
UpsertEach(coll, nid, accountId, evs, now, failAt) ==
  IF evs = << >> THEN [events |-> coll, nextId |-> nid, threw |-> FALSE]
  ELSE IF failAt = 1 THEN [events |-> coll, nextId |-> nid, threw |-> TRUE]
  ELSE LET r == UpsertInto(coll, nid, accountId, Head(evs), now)
       IN UpsertEach(r.events, r.nextId, accountId, Tail(evs), now, failAt - 1)

(* getByUid, then delete(existing.id) when there is a cached event
   (DeleteUncheckedThrows: delete called on what getByUid returned, unchecked) *)
DeleteUncheckedThrows(coll, accountId, uid) ==
  LET found == FindByUid(coll, accountId, uid) IN
  IF found = {} THEN [events |-> coll, threw |-> TRUE, removed |-> FALSE]
  ELSE [events |-> StorageDelete(coll, (CHOOSE r \in found : TRUE).id), threw |-> FALSE,
        removed |-> TRUE]

DeleteIfCached(coll, accountId, uid) ==
  LET found == FindByUid(coll, accountId, uid) IN
  IF found = {} THEN [events |-> coll, threw |-> FALSE, removed |-> FALSE]
  ELSE [events |-> StorageDelete(coll, (CHOOSE r \in found : TRUE).id), threw |-> FALSE,
        removed |-> TRUE]

RECURSIVE DeleteEach(_, _, _, _)
(* for (const uid of syncResult.deletedUids) ...; with fails, the first lookup throws *)
DeleteEach(coll, accountId, uids, fails) ==
  IF uids = << >> THEN [events |-> coll, threw |-> FALSE, removed |-> {}]
  ELSE IF fails THEN [events |-> coll, threw |-> TRUE, removed |-> {}]
  ELSE LET d == DeleteIfCached(coll, accountId, Head(uids)) IN
       IF d.threw THEN [events |-> d.events, threw |-> TRUE, removed |-> {}]
       ELSE LET rest == DeleteEach(d.events, accountId, Tail(uids), FALSE)
            IN [events |-> rest.events, threw |-> rest.threw,
                removed |-> rest.removed \cup (IF d.removed THEN {Head(uids)} ELSE {})]

(* accounts.updateSyncStatus(id, error): nothing is written when the document is gone *)
UpdateSyncStatus(accts, id, error, now) ==
  IF accts[id] = NoAccountDoc THEN accts
  ELSE [accts EXCEPT ![id] = [@ EXCEPT !.lastError = error, !.lastSyncAt = now]]

(* catch { // Ignore update errors }: whether an error of the status write in the
   catch block leaves syncAccountEvents
   (UpdateErrorRethrown: the inner try/catch left out) *)
UpdateErrorRethrown(statusErr) == statusErr

UpdateErrorEscapes(statusErr) == FALSE

StageRank(stage) ==
  CASE stage = "provider" -> 1 [] stage = "credentials" -> 2 [] stage = "fetch" -> 3
    [] stage = "upsert" -> 4 [] stage \in {"delete", "tombstone"} -> 5 [] stage = "cursor" -> 6
    [] stage = "status" -> 7 [] OTHER -> 8

(* Whether syncState.upsert has run in a call that got as far as rank: it
   follows the loop over the events and the loop over the deletedUids
   (CursorWrittenAfterFetch: the cursor is stored as soon as the result is in) *)
CursorWrittenAfterFetch(rank) == rank > 3

CursorWritten(rank) == rank > 6

(* syncAccountEvents(account, ...): the stage that failed ("none": none did), the
   state it leaves behind and whether an exception leaves it.  statusErr: the
   status write of the catch block fails too *)
SyncAccountEventsResult(account, fault, statusErr, resp, fetch) ==
  LET id == account.id
      cred == EnsureFreshResult(account, config, clock, resp, Len(tokenLog) + 1)
      sr == ProviderSyncEvents(account, cred.credentials, syncState[id].syncToken,
                               {it \in remote : it.account = id}, fetch)
      up == UpsertEach(events, nextId, id, SyncUpsertInputs(sr.events), clock,
                       IF fault = "upsert" THEN 1 ELSE 0)
      del == DeleteEach(up.events, id, sr.deletedUids, fault = "delete")
      stage == IF account.provider \notin RegisteredProviders THEN "provider"
               ELSE IF cred.outcome = "error" THEN "credentials"
               ELSE IF sr.threw THEN "fetch"
               ELSE IF up.threw THEN "upsert"
               ELSE IF del.threw THEN (IF fault = "delete" THEN "delete" ELSE "tombstone")
               ELSE IF fault = "cursor" THEN "cursor"
               ELSE IF fault = "status" THEN "status"
               ELSE "none"
      rank == StageRank(stage)
  IN [stage |-> stage,
      grant |-> rank > 1 /\ cred.grant,
      fetched |-> rank > 3,
      tokenLog |-> IF rank > 1 THEN TokenLogAfter(account, cred) ELSE tokenLog,
      secrets |-> IF rank > 1 THEN SecretsAfter(account, cred) ELSE secrets,
      events |-> IF rank < 4 THEN events ELSE IF rank = 4 THEN up.events ELSE del.events,
      nextId |-> IF rank < 4 THEN nextId ELSE up.nextId,
      syncState |-> IF CursorWritten(rank)
                    THEN [syncState EXCEPT ![id] = SyncStateDoc(sr.syncToken, sr.deltaLink)]
                    ELSE syncState,
      accounts |-> IF stage = "none" THEN UpdateSyncStatus(accounts, id, "null", clock)
                   ELSE IF statusErr THEN accounts
                   ELSE UpdateSyncStatus(accounts, id,
                                         IF stage = "credentials"
                                         THEN CredentialsMessage(cred.grant)
                                         ELSE ErrorMessage(stage), clock),
      thrown |-> stage # "none" /\ statusErr /\ UpdateErrorEscapes(statusErr),
      returned |-> IF rank > 3
                   THEN {<<sr.sources[i], sr.events[i].uid>> : i \in 1..Len(sr.events)}
                   ELSE {},
      deletedUids |-> IF rank > 3 THEN {sr.deletedUids[i] : i \in 1..Len(sr.deletedUids)}
                      ELSE {},
      removed |-> IF rank > 4 THEN del.removed ELSE {},
      syncToken |-> IF rank > 3 THEN sr.syncToken ELSE "null",
      deltaLink |-> IF rank > 3 THEN sr.deltaLink ELSE "null"]

(* accounts.list(): the stored accounts, sorted by name *)
AccountList == SelectSeq(<<"a1", "a2">>, LAMBDA a : accounts[a] # NoAccountDoc)

(* syncAllAccountsWithContext (mode "context") or the sync phase of the worker's
   loop (mode "worker") begins: it lists the accounts *)
StartPass(mode) ==
  /\ pass.stage # "running"
  /\ pass' = [NoPass EXCEPT !.stage = "running", !.mode = mode, !.list = AccountList]
  /\ UNCHANGED <<repoVars, acctVars, syncState, remote, syncRet, toolLog, remVars, raceVars>>

(* ctx.signal is aborted while the worker's sync phase runs *)
Abort ==
  /\ pass.stage = "running" /\ pass.mode = "worker" /\ ~pass.aborted
  /\ pass' = [pass EXCEPT !.aborted = TRUE]
  /\ UNCHANGED <<repoVars, acctVars, syncState, remote, syncRet, toolLog, remVars, raceVars>>

(* One iteration of for (const account of accounts): a disabled account is
   passed over, the worker leaves the loop when its signal is aborted, otherwise
   syncAccountEvents runs; an exception leaving it ends the loop in the catch of
   the pass *)
SyncNextAccount(faults) ==
  /\ pass.stage = "running"
  /\ pass.idx <= Len(pass.list)
  /\ LET id == pass.list[pass.idx]
         account == AccountOf(id)
     IN IF ~account.enabled
        THEN /\ pass' = [pass EXCEPT !.idx = @ + 1]
             /\ syncRet' = [NoSyncRet EXCEPT !.account = id]
             /\ UNCHANGED <<repoVars, acctVars, syncState, remote, toolLog, remVars, raceVars>>
        ELSE IF pass.mode = "worker" /\ pass.aborted
        THEN /\ pass' = [pass EXCEPT !.idx = Len(pass.list) + 1]
             /\ syncRet' = [NoSyncRet EXCEPT !.account = id]
             /\ UNCHANGED <<repoVars, acctVars, syncState, remote, toolLog, remVars, raceVars>>
        ELSE \E fault \in faults, statusErr \in BOOLEAN, resp \in TokenResponsesFor(account),
                fetch \in Fetches(account, syncState[id].syncToken) :
               \E r \in {SyncAccountEventsResult(account, fault, statusErr, resp, fetch)} :
               /\ r.nextId <= MaxIds + 1
               /\ r.grant => Len(tokenLog) < MaxTokenRequests
               /\ statusErr => r.stage # "none"
               /\ events' = r.events
               /\ nextId' = r.nextId
               /\ tokenLog' = r.tokenLog
               /\ secrets' = r.secrets
               /\ syncState' = r.syncState
               /\ accounts' = r.accounts
               /\ syncRet' = [account |-> id, called |-> TRUE, provider |-> account.provider,
                              hadToken |-> syncState[id].syncToken # "null",
                              stage |-> r.stage, fetched |-> r.fetched,
                              returned |-> r.returned, deletedUids |-> r.deletedUids,
                              removed |-> r.removed,
                              syncToken |-> r.syncToken, deltaLink |-> r.deltaLink]
               /\ pass' = IF r.thrown
                          THEN [pass EXCEPT !.stage = "done",
                                            !.called = @ \cup {id}, !.failed = @ \cup {id},
                                            !.unrecorded = @ \cup {id}]
                          ELSE [pass EXCEPT
                                  !.idx = @ + 1,
                                  !.called = @ \cup {id},
                                  !.failed = IF r.stage # "none" THEN @ \cup {id} ELSE @,
                                  !.unrecorded = IF r.stage # "none" /\ statusErr
                                                 THEN @ \cup {id} ELSE @,
                                  !.due = IF r.stage = "none"
                                          THEN @ \cup {<<id, x[2]>> : x \in r.returned}
                                          ELSE @]
               /\ UNCHANGED <<clock, ret, config, credRet, remote, toolLog, remVars, raceVars>>

(* After the loop: emitEventChanged, and the pass is over *)
EndPass ==
  /\ pass.stage = "running"
  /\ pass.idx > Len(pass.list)
  /\ pass' = [pass EXCEPT !.stage = "done", !.emitted = TRUE]
  /\ UNCHANGED <<repoVars, acctVars, syncState, remote, syncRet, toolLog, remVars, raceVars>>

----------------------------------------------------------------------------
(* The worker loop and its reminder phase *)

PollIntervalMinutes == 10        \* POLL_INTERVAL_MS
ReminderGraceMinutes == 5        \* REMINDER_GRACE_MS
UpcomingWindowMinutes == 1440    \* now + 24 * 60 * 60 * 1000
DefaultReminderMinutes == 15     \* DEFAULT_SETTINGS.reminderMinutes
Infinity == 100000               \* let earliestFuture = Infinity

Horizon == 6                     \* the clock of the worker model runs from 0 to Horizon

TaskIds == {"t1", "t2"}          \* the background tasks the host can be asked to run

NoWorker == "none"               \* workerDisposables holds no entry for the user

NoTask ==
  [pc |-> "unused", registered |-> FALSE, aborted |-> FALSE, now |-> 0, queue |-> << >>,
   fired |-> {}, earliestFuture |-> Infinity, wakeAt |-> 0]

NoRemRet ==
  [valid |-> FALSE, task |-> "", uid |-> "", startAt |-> 0, now |-> 0, reminderMinutes |-> 0,
   wasFired |-> FALSE, accepted |-> FALSE, attempted |-> FALSE, delivered |-> FALSE,
   warned |-> {}, aborted |-> FALSE]

(* `${event.uid}-${event.startAt}` *)
ReminderKey(event) == <<event.uid, event.startAt>>

(* firedReminders.has(key)
   (NeverFired: the check left out) *)
NeverFired(fired, key) == FALSE

AlreadyFired(fired, key) == key \in fired

(* reminderMs <= nowMs && reminderMs > nowMs - REMINDER_GRACE_MS
   (InGraceWindowClosed: >= written for >) *)
InGraceWindowClosed(reminderTime, now) ==
  reminderTime <= now /\ reminderTime >= now - ReminderGraceMinutes

(* (InGraceWindowUnbounded: every reminder of the past is delivered) *)
InGraceWindowUnbounded(reminderTime, now) == reminderTime <= now

InGraceWindow(reminderTime, now) ==
  reminderTime <= now /\ reminderTime > now - ReminderGraceMinutes

(* firedReminders.add(key) follows await fireReminder(...) inside the try: the
   key is added when fireReminder has returned
   (MarksFiredOnAttempt: the key added before the await) *)
MarksFiredOnAttempt(fire, returns) == fire

MarksFired(fire, returns) == returns

Min(a, b) == IF a <= b THEN a ELSE b

(* startWorkerForUser up to the await: the entry is looked up, and the host is
   asked to start the task, which begins with an empty firedReminders *)
StartWorkerForUser(t) ==
  /\ workerDisposables = NoWorker
  /\ tasks[t].pc = "unused"
  /\ tasks' = [tasks EXCEPT ![t] = [NoTask EXCEPT !.pc = "loop"]]
  /\ UNCHANGED <<repoVars, acctVars, syncVars, raceVars, workerDisposables, sink, remRet, settings, chat>>

(* startWorkerForUser after the await: workerDisposables.set(workerId, disposable) *)
RegisterWorker(t) ==
  /\ tasks[t].pc # "unused"
  /\ ~tasks[t].registered
  /\ tasks' = [tasks EXCEPT ![t].registered = TRUE]
  /\ workerDisposables' = t
  /\ UNCHANGED <<repoVars, acctVars, syncVars, raceVars, sink, remRet, settings, chat>>

(* stopAll: the registered task's signal is aborted and the map cleared *)
StopAll ==
  /\ workerDisposables # NoWorker
  /\ tasks' = [tasks EXCEPT ![workerDisposables].aborted = TRUE]
  /\ workerDisposables' = NoWorker
  /\ UNCHANGED <<repoVars, acctVars, syncVars, raceVars, sink, remRet, settings, chat>>

(* while (!ctx.signal.aborted) and the sync phase, for a user none of whose
   accounts is enabled: the accounts are listed and none is synced *)
WorkerSyncPhase(t) ==
  /\ tasks[t].pc = "loop"
  /\ \A a \in AccountIds : accounts[a] = NoAccountDoc \/ ~accounts[a].enabled
  /\ tasks' = [tasks EXCEPT ![t].pc = IF tasks[t].aborted THEN "stopped" ELSE "reminders"]
  /\ UNCHANGED <<repoVars, acctVars, syncVars, raceVars, workerDisposables, sink, remRet, settings, chat>>

(* if (ctx.signal.aborted) break; then the reminder phase begins: the settings
   are read, now is taken and the upcoming events are fetched *)
ReminderPhaseStart(t) ==
  /\ tasks[t].pc = "reminders"
  /\ IF tasks[t].aborted
     THEN tasks' = [tasks EXCEPT ![t].pc = "stopped"]
     ELSE \E upcoming \in GetUpcoming(events, clock, clock + UpcomingWindowMinutes) :
            tasks' = [tasks EXCEPT ![t].pc = "scan", ![t].now = clock,
                                   ![t].queue = upcoming,
                                   ![t].earliestFuture = Infinity]
  /\ UNCHANGED <<repoVars, acctVars, syncVars, raceVars, workerDisposables, sink, remRet, settings, chat>>

(* One iteration of for (const event of events).  accepts: whether
   chat.appendInstruction resolves; fireReminder returns at once when there is
   no chat API, and the key is added whenever fireReminder returns; when it
   throws, 'Failed to fire reminder' is logged (warned) *)
RemindNext(t, accepts) ==
  /\ tasks[t].pc = "scan"
  /\ tasks[t].queue # << >>
  /\ LET task == tasks[t]
         event == Head(task.queue)
         reminderTime == event.startAt - settings.reminderMinutes
         key == ReminderKey(event)
         skip == AlreadyFired(task.fired, key)
         fire == ~skip /\ InGraceWindow(reminderTime, task.now)
         delivered == fire /\ chat /\ accepts
         returns == fire /\ (~chat \/ accepts)
     IN /\ accepts = FALSE => (fire /\ chat)
        /\ tasks' = [tasks EXCEPT
                       ![t].queue = Tail(task.queue),
                       ![t].fired = IF MarksFired(fire, returns) THEN @ \cup {key} ELSE @,
                       ![t].earliestFuture =
                          IF ~skip /\ ~fire /\ reminderTime > task.now
                          THEN Min(@, reminderTime - task.now) ELSE @]
        /\ sink' = IF delivered THEN [sink EXCEPT ![key] = @ + 1] ELSE sink
        /\ remRet' = [valid |-> TRUE, task |-> t, uid |-> event.uid,
                      startAt |-> event.startAt, now |-> task.now,
                      reminderMinutes |-> settings.reminderMinutes,
                      wasFired |-> key \in task.fired,
                      accepted |-> chat /\ accepts,
                      attempted |-> fire, delivered |-> delivered,
                      warned |-> IF fire /\ ~returns THEN remRet.warned \cup {key}
                                 ELSE remRet.warned,
                      aborted |-> task.aborted]
  /\ UNCHANGED <<repoVars, acctVars, syncVars, raceVars, workerDisposables, settings, chat>>

(* After the loop over the events: the wait is computed, and unless the signal
   is aborted the task sleeps (the floor of one second is below a minute) *)
ReminderPhaseEnd(t) ==
  /\ tasks[t].pc = "scan"
  /\ tasks[t].queue = << >>
  /\ LET nextReminder == IF tasks[t].earliestFuture < Infinity
                         THEN Min(tasks[t].earliestFuture, PollIntervalMinutes)
                         ELSE PollIntervalMinutes
     IN tasks' = [tasks EXCEPT
                    ![t].pc = IF tasks[t].aborted THEN "stopped" ELSE "sleep",
                    ![t].wakeAt = IF tasks[t].aborted THEN 0 ELSE clock + nextReminder]
  /\ UNCHANGED <<repoVars, acctVars, syncVars, raceVars, workerDisposables, sink, remRet, settings, chat>>

(* The promise of the sleep resolves: the timer fires, or the abort listener runs
   (SleepResolvesOnTimerOnly: no abort listener) *)
SleepResolvesOnTimerOnly(task, now) == now >= task.wakeAt

SleepResolves(task, now) == now >= task.wakeAt \/ task.aborted

Wake(t) ==
  /\ tasks[t].pc = "sleep"
  /\ SleepResolves(tasks[t], clock)
  /\ tasks' = [tasks EXCEPT ![t].pc = "loop", ![t].wakeAt = 0]
  /\ UNCHANGED <<repoVars, acctVars, syncVars, raceVars, workerDisposables, sink, remRet, settings, chat>>

(* A minute passes; a reminder pass takes less than that *)
Advance ==
  /\ clock < Horizon
  /\ \A t \in TaskIds : tasks[t].pc \notin {"reminders", "scan"}
  /\ clock' = clock + 1
  /\ UNCHANGED <<events, nextId, ret, acctVars, syncVars, remVars, raceVars>>

(* The cache of a user with two events, half an hour long, a minute apart *)
ReminderCache ==
  {[id |-> 1, accountId |-> "a1", uid |-> "u1", title |-> "t1", startAt |-> 16, endAt |-> 46,
    responseStatus |-> "null", createdAt |-> 0, updatedAt |-> 0],
   [id |-> 2, accountId |-> "a1", uid |-> "u2", title |-> "t2", startAt |-> 17, endAt |-> 47,
    responseStatus |-> "null", createdAt |-> 0, updatedAt |-> 0]}

ReminderKeys == {ReminderKey(e) : e \in ReminderCache}

----------------------------------------------------------------------------
(* Callers that run at the same time *)

(* The worker's sync phase, the cal_events_sync tool (or any other caller of
   syncAllAccountsWithContext) and the cal_events_create tool *)
SyncCallers == {"worker", "tool"}
Callers == SyncCallers \cup {"create"}

RacingAccount == "a2"      \* the account the callers meet on

NoSnapshot ==
  [id |-> "", provider |-> "", authType |-> "", enabled |-> FALSE, lastError |-> "null",
   credentials |-> NoSecret]

(* A caller that has not begun: where it stands and the values it holds in
   local variables across its awaits *)
NoProc ==
  [pc |-> "idle", first |-> NoSnapshot, account |-> NoSnapshot, credentials |-> NoSecret,
   serial |-> 0, syncToken |-> "null", queue |-> << >>, existing |-> NoDoc,
   cursor |-> NoSyncState, failed |-> FALSE]

(* What is remembered of the run: the serial of the grant the token endpoint
   answered last, the refresh tokens it has replaced by new ones, whether one
   of those was presented again, and which caller has written which uid *)
NoRaceLog == [lastGrant |-> 0, retired |-> {}, reused |-> FALSE, puts |-> {}]

----------------------------------------------------------------------------
(* The repository driven one call at a time *)

NoRet == [op |-> "none", doc |-> NoDoc]

InitRepo ==
  /\ events = {}
  /\ clock = 0
  /\ nextId = 1
  /\ ret = NoRet
  /\ accounts = [a \in AccountIds |-> NoAccountDoc]
  /\ secrets = [a \in AccountIds |-> NoSecret]
  /\ config = NoConfig
  /\ tokenLog = << >>
  /\ credRet = NoCredRet
  /\ syncState = [a \in AccountIds |-> NoSyncState]
  /\ remote = {}
  /\ pass = NoPass
  /\ syncRet = NoSyncRet
  /\ toolLog = NoToolLog
  /\ tasks = [t \in TaskIds |-> NoTask]
  /\ workerDisposables = NoWorker
  /\ sink = [k \in ReminderKeys |-> 0]
  /\ remRet = NoRemRet
  /\ settings = [reminderMinutes |-> DefaultReminderMinutes]
  /\ chat = TRUE
  /\ procs = [p \in Callers |-> NoProc]
  /\ raceLog = NoRaceLog

NextRepo ==
  \/ \E a \in AccountIds, ev \in EventInputs : UpsertByUid(a, ev)
  \/ \E id \in 1..MaxIds : DeleteEvent(id)
  \/ \E a \in AccountIds : DeleteByAccount(a)
  \/ Tick

SpecRepo == InitRepo /\ [][NextRepo]_vars

----------------------------------------------------------------------------
(* The credential refresher called on accounts in every stored shape *)

AccountDoc(provider, authType) ==
  [provider |-> provider, authType |-> authType, enabled |-> TRUE, lastError |-> "null",
   lastSyncAt |-> NoTime]

InitialExpiries == {2, 5, 6, 10, NaNTime}

(* The (document, stored secret) pairs an account can be created with: upsert sets
   authType from the input's tokens or password, whatever the provider *)
StoredAccounts ==
  {<<AccountDoc(p, "oauth2"), OAuth2Credentials(0, 0, e)>> :
     p \in {"google", "outlook", "caldav"}, e \in InitialExpiries}
  \cup {<<AccountDoc("caldav", "password"), PasswordCredentials>>,
        <<AccountDoc("ical", "none"), NoCredentials>>,
        <<AccountDoc("google", "oauth2"), NoSecret>>}

Configs ==
  {[googleClientId |-> TRUE, googleClientSecret |-> TRUE],
   [googleClientId |-> TRUE, googleClientSecret |-> FALSE],
   NoConfig}

InitCred ==
  /\ events = {}
  /\ clock = 0
  /\ nextId = 1
  /\ ret = NoRet
  /\ \E s1 \in StoredAccounts,
        s2 \in {<<NoAccountDoc, NoSecret>>,
                <<AccountDoc("outlook", "oauth2"), OAuth2Credentials(0, 0, 6)>>} :
       /\ accounts = [a \in AccountIds |-> IF a = "a1" THEN s1[1] ELSE s2[1]]
       /\ secrets = [a \in AccountIds |-> IF a = "a1" THEN s1[2] ELSE s2[2]]
  /\ config \in Configs
  /\ tokenLog = << >>
  /\ credRet = NoCredRet
  /\ syncState = [a \in AccountIds |-> NoSyncState]
  /\ remote = {}
  /\ pass = NoPass
  /\ syncRet = NoSyncRet
  /\ toolLog = NoToolLog
  /\ tasks = [t \in TaskIds |-> NoTask]
  /\ workerDisposables = NoWorker
  /\ sink = [k \in ReminderKeys |-> 0]
  /\ remRet = NoRemRet
  /\ settings = [reminderMinutes |-> DefaultReminderMinutes]
  /\ chat = TRUE
  /\ procs = [p \in Callers |-> NoProc]
  /\ raceLog = NoRaceLog

NextCred ==
  \/ \E id \in AccountIds, resp \in TokenResponses : EnsureFreshCredentials(id, resp)
  \/ Tick

SpecCred == InitCred /\ [][NextCred]_vars

(* C5 as stated: for a Google or Outlook OAuth2 account (with a well-formed
   expiresAt), ensureFreshCredentials sends a refresh-token grant if and only if
   now >= expiresAt - 5 minutes. *)
C5_AsStated ==
  (/\ credRet.outcome # "none"
   /\ credRet.provider \in {"google", "outlook"}
   /\ credRet.before.type = "oauth2"
   /\ credRet.before.expiresAt # NaNTime)
  => (credRet.grant <=> credRet.at >= credRet.before.expiresAt - 5)

(* C5 amended: for a Google or Outlook OAuth2 account, ensureFreshCredentials sends
   a refresh-token grant iff expiresAt is a date, now >= expiresAt - 5 minutes and,
   for Google, client id and client secret are both configured; with
   expiresAt = now + 2 min (and the configuration present) it sends one, with
   expiresAt = now + 10 min it sends none; whenever it sends none and does not
   throw it returns the stored credentials and leaves the secret store as it was. *)
C5_RefreshIffDue ==
  (/\ credRet.outcome # "none"
   /\ credRet.provider \in {"google", "outlook"}
   /\ credRet.before.type = "oauth2")
  => /\ credRet.grant <=>
          /\ credRet.before.expiresAt # NaNTime
          /\ credRet.at >= credRet.before.expiresAt - 5
          /\ (credRet.provider = "google" =>
                 config.googleClientId /\ config.googleClientSecret)
     /\ (credRet.before.expiresAt = credRet.at + 10) =>
          /\ ~credRet.grant
          /\ credRet.outcome = "unchanged"
     /\ (credRet.before.expiresAt = credRet.at + 2
          /\ (credRet.provider = "google" =>
                 config.googleClientId /\ config.googleClientSecret)) => credRet.grant
     /\ credRet.outcome = "unchanged" =>
          /\ credRet.credentials = credRet.before
          /\ LoadCredentials(secrets[credRet.account], "oauth2") = credRet.before
     /\ ~credRet.grant => credRet.outcome # "refreshed"

(* A call at exactly expiresAt - 5 minutes has refreshed the token of a Google
   account, after time has passed *)
C5_Witness ==
  /\ credRet.provider = "google"
  /\ credRet.outcome = "refreshed"
  /\ credRet.at = credRet.before.expiresAt - 5
  /\ credRet.at > 0

----------------------------------------------------------------------------
(* cal_events_create *)

CreateInputs == {[title |-> "t2", startAt |-> 1, endAt |-> 2]}

GeneratedUids == <<"g1", "g2", "g3">>

(* generateUid(): a uid no earlier call has produced *)
GenerateUid(n) == GeneratedUids[n]

NoCreated ==
  [threw |-> TRUE, item |-> [account |-> "", id |-> "", iCalUID |-> "", title |-> "",
                             startAt |-> 0, status |-> "", partstat |-> ""],
   uid |-> "", title |-> "", responseStatus |-> "undefined"]

(* provider.createEvent(account, credentials, input): the item the server then
   holds and the event returned.  slot: the id and iCalUID a Google or Graph
   server gives the new item, or the place of the new object on a CalDAV server *)
ProviderCreateEvent(account, credentials, input, slot, uid) ==
  IF account.provider = "ical" THEN NoCreated
  ELSE IF account.provider \in {"google", "outlook"}
  THEN IF credentials.type # "oauth2" THEN NoCreated
       ELSE LET item == [slot EXCEPT !.title = input.title, !.startAt = input.startAt]
            IN [threw |-> FALSE, item |-> item,
                uid |-> IF account.provider = "google" THEN GoogleCreatedUid(item)
                        ELSE OutlookCreatedUid(item),
                title |-> item.title, responseStatus |-> "undefined"]
  ELSE IF credentials.type # "password" THEN NoCreated
       ELSE LET data == GenerateICalEvent(input, uid)
            IN [threw |-> FALSE,
                item |-> [slot EXCEPT !.iCalUID = data.uid, !.title = data.summary,
                                      !.startAt = data.dtstart],
                uid |-> uid, title |-> input.title, responseStatus |-> "null"]

ReadOnlyError == "iCal URL calendars are read-only"

(* (WriteErrorGeneric: every provider's error reads the same) *)
WriteErrorGeneric(account, cred) == "error"

(* error.message of what a write tool catches: the refresh's error, the iCal
   provider's read-only error, or another provider's error *)
WriteError(account, cred) ==
  IF cred.outcome = "error" THEN "error"
  ELSE IF account.provider = "ical" THEN ReadOnlyError
  ELSE "error"

(* The create tool's execute: the account is loaded, its credentials refreshed,
   the event created on the server and upserted into the cache; any error is
   returned as success: false *)
CreateEvent(id, input, slot) ==
  /\ pass.stage # "running"
  /\ slot.account = id
  /\ \A it \in remote : it.id # slot.id
  /\ IF accounts[id] = NoAccountDoc
     THEN /\ toolLog' = [toolLog EXCEPT !.error = "Account not found", !.op = "create",
                                         !.requested = FALSE]
          /\ UNCHANGED <<events, nextId, tokenLog, secrets, remote>>
     ELSE \E resp \in TokenResponsesFor(AccountOf(id)) :
            LET account == AccountOf(id)
                cred == EnsureFreshResult(account, config, clock, resp, Len(tokenLog) + 1)
                c == ProviderCreateEvent(account, cred.credentials, input, slot,
                                         GenerateUid(Cardinality(toolLog.created) + 1))
                up == UpsertInto(events, nextId, id,
                                 [uid |-> c.uid, title |-> c.title, startAt |-> input.startAt,
                                  endAt |-> input.endAt,
                                  responseStatus |-> NullishToNull(c.responseStatus)], clock)
            IN /\ cred.grant => Len(tokenLog) < MaxTokenRequests
               /\ tokenLog' = TokenLogAfter(account, cred)
               /\ secrets' = SecretsAfter(account, cred)
               /\ IF cred.outcome = "error" \/ c.threw
                  THEN /\ toolLog' = [toolLog EXCEPT !.error = WriteError(account, cred),
                                                      !.op = "create", !.requested = FALSE]
                       /\ UNCHANGED <<events, nextId, remote>>
                  ELSE /\ up.nextId <= MaxIds + 1
                       /\ remote' = remote \cup {c.item}
                       /\ events' = up.events
                       /\ nextId' = up.nextId
                       /\ toolLog' = [created |-> toolLog.created \cup
                                        {[account |-> id, remoteId |-> c.item.id,
                                          uid |-> c.uid, rowId |-> up.id]},
                                      error |-> "null", op |-> "create", requested |-> TRUE]
  /\ UNCHANGED <<clock, ret, accounts, config, credRet, syncState, pass, syncRet, remVars, raceVars>>

UpdateInputs == {[title |-> "t3"]}

NoWritten == [threw |-> TRUE, requested |-> FALSE, remote |-> {}, title |-> ""]

(* The item a Google or Graph request for /events/{eventId} names, and the
   object a CalDAV request for existingEvent.remoteUrl names *)
WriteTarget(account, existing, items) ==
  {it \in items :
     /\ it.account = account.id /\ it.status = "confirmed"
     /\ IF account.provider \in {"google", "outlook"} THEN it.id = existing.uid
        ELSE it.iCalUID = existing.uid}

(* provider.updateEvent(account, credentials, existingEvent.uid, update,
   existingEvent): whether it throws, whether a request was sent, the items the
   servers hold afterwards and the title returned.  hasUrl: the cached event
   carries a remoteUrl *)
ProviderUpdateEvent(account, credentials, existing, update, items, hasUrl) ==
  LET target == WriteTarget(account, existing, items)
      written == [threw |-> FALSE, requested |-> TRUE,
                  remote |-> (items \ target) \cup {[it EXCEPT !.title = update.title] : it \in target},
                  title |-> update.title]
      refused == [NoWritten EXCEPT !.requested = TRUE, !.remote = items]
  IN IF account.provider = "ical" THEN [NoWritten EXCEPT !.remote = items]
     ELSE IF account.provider \in {"google", "outlook"}
     THEN IF credentials.type # "oauth2" THEN [NoWritten EXCEPT !.remote = items]
          ELSE IF target = {} THEN refused ELSE written
     ELSE IF credentials.type # "password" THEN [NoWritten EXCEPT !.remote = items]
          ELSE IF ~hasUrl \/ target = {} THEN refused ELSE written

(* provider.deleteEvent(account, credentials, existingEvent.uid, existingEvent):
   Google keeps the item as cancelled, the other servers drop it *)
ProviderDeleteEvent(account, credentials, existing, items, hasUrl) ==
  LET target == WriteTarget(account, existing, items)
      written == [threw |-> FALSE, requested |-> TRUE,
                  remote |-> IF account.provider = "google"
                             THEN (items \ target) \cup
                                    {[it EXCEPT !.status = "cancelled"] : it \in target}
                             ELSE items \ target,
                  title |-> ""]
      refused == [NoWritten EXCEPT !.requested = TRUE, !.remote = items]
  IN IF account.provider = "ical" THEN [NoWritten EXCEPT !.remote = items]
     ELSE IF account.provider \in {"google", "outlook"}
     THEN IF credentials.type # "oauth2" THEN [NoWritten EXCEPT !.remote = items]
          ELSE IF target = {} THEN refused ELSE written
     ELSE IF credentials.type # "password" THEN [NoWritten EXCEPT !.remote = items]
          ELSE IF ~hasUrl \/ target = {} THEN refused ELSE written

(* The update tool's (op "update") and the delete tool's (op "delete") execute
   for the cached event rowId: the event and its account are loaded, the
   credentials refreshed, the provider called, and on success the cache
   updated; any error is returned as success: false *)
WriteEvent(op, rowId, update, hasUrl) ==
  /\ pass.stage # "running"
  /\ LET found == {r \in events : r.id = rowId} IN
     IF found = {}
     THEN /\ toolLog' = [toolLog EXCEPT !.error = "Event not found", !.op = op,
                                         !.requested = FALSE]
          /\ UNCHANGED <<events, nextId, tokenLog, secrets, remote>>
     ELSE LET existing == CHOOSE r \in found : TRUE IN
          IF accounts[existing.accountId] = NoAccountDoc
          THEN /\ toolLog' = [toolLog EXCEPT !.error = "Account not found", !.op = op,
                                              !.requested = FALSE]
               /\ UNCHANGED <<events, nextId, tokenLog, secrets, remote>>
          ELSE \E resp \in TokenResponsesFor(AccountOf(existing.accountId)) :
                 LET account == AccountOf(existing.accountId)
                     cred == EnsureFreshResult(account, config, clock, resp, Len(tokenLog) + 1)
                     w == IF op = "update"
                          THEN ProviderUpdateEvent(account, cred.credentials, existing, update,
                                                   remote, hasUrl)
                          ELSE ProviderDeleteEvent(account, cred.credentials, existing, remote,
                                                   hasUrl)
                     up == UpsertInto(events, nextId, account.id,
                                      [uid |-> existing.uid, title |-> w.title,
                                       startAt |-> existing.startAt, endAt |-> existing.endAt,
                                       responseStatus |-> NullishToNull(existing.responseStatus)],
                                      clock)
                 IN /\ cred.grant => Len(tokenLog) < MaxTokenRequests
                    /\ tokenLog' = TokenLogAfter(account, cred)
                    /\ secrets' = SecretsAfter(account, cred)
                    /\ IF cred.outcome = "error"
                       THEN /\ toolLog' = [toolLog EXCEPT !.error = WriteError(account, cred),
                                                           !.op = op, !.requested = FALSE]
                            /\ UNCHANGED <<events, nextId, remote>>
                       ELSE IF w.threw
                       THEN /\ toolLog' = [toolLog EXCEPT !.error = WriteError(account, cred),
                                                           !.op = op, !.requested = w.requested]
                            /\ remote' = w.remote
                            /\ UNCHANGED <<events, nextId>>
                       ELSE /\ remote' = w.remote
                            /\ events' = IF op = "update" THEN up.events
                                         ELSE StorageDelete(events, rowId)
                            /\ UNCHANGED nextId
                            /\ toolLog' = [toolLog EXCEPT !.error = "null", !.op = op,
                                                          !.requested = TRUE]
  /\ UNCHANGED <<clock, ret, accounts, config, credRet, syncState, pass, syncRet, remVars, raceVars>>

----------------------------------------------------------------------------
(* Sync passes over two accounts, with failures *)

FullConfig == [googleClientId |-> TRUE, googleClientSecret |-> TRUE]

DisabledDoc(provider, authType) == [AccountDoc(provider, authType) EXCEPT !.enabled = FALSE]

(* The first account of a setup, with its stored secret and the configuration:
   an iCal feed, a Google account whose token is due while no client id is
   configured, a disabled account, and an account whose provider this build
   does not register *)
SyncSetups ==
  {<<AccountDoc("ical", "none"), NoCredentials, FullConfig>>,
   <<AccountDoc("google", "oauth2"), OAuth2Credentials(0, 0, 5), NoConfig>>,
   <<DisabledDoc("google", "oauth2"), OAuth2Credentials(0, 0, 10), FullConfig>>,
   <<AccountDoc("exchange", "password"), PasswordCredentials, FullConfig>>}

InitSync ==
  /\ events = {}
  /\ clock = 0
  /\ nextId = 1
  /\ ret = NoRet
  /\ \E s1 \in SyncSetups :
       /\ accounts = [a \in AccountIds |->
                        IF a = "a1" THEN s1[1] ELSE AccountDoc("caldav", "password")]
       /\ secrets = [a \in AccountIds |-> IF a = "a1" THEN s1[2] ELSE PasswordCredentials]
       /\ config = s1[3]
  /\ tokenLog = << >>
  /\ credRet = NoCredRet
  /\ syncState = [a \in AccountIds |-> NoSyncState]
  /\ remote = {}
  /\ pass = NoPass
  /\ syncRet = NoSyncRet
  /\ toolLog = NoToolLog
  /\ tasks = [t \in TaskIds |-> NoTask]
  /\ workerDisposables = NoWorker
  /\ sink = [k \in ReminderKeys |-> 0]
  /\ remRet = NoRemRet
  /\ settings = [reminderMinutes |-> DefaultReminderMinutes]
  /\ chat = TRUE
  /\ procs = [p \in Callers |-> NoProc]
  /\ raceLog = NoRaceLog

NextSync ==
  \/ \E item \in RemoteItems : RemoteAdd(item)
  \/ \E i \in 1..Len(RemoteIds) : RemoteCancel(RemoteIds[i])
  \/ \E mode \in {"context", "worker"} : StartPass(mode)
  \/ Abort
  \/ SyncNextAccount(Faults)
  \/ EndPass

SpecSync == InitSync /\ [][NextSync]_vars

----------------------------------------------------------------------------
(* Sync passes over one Google account, with deltas and tombstones *)

InitDelta ==
  /\ events = {}
  /\ clock = 0
  /\ nextId = 1
  /\ ret = NoRet
  /\ accounts = [a \in AccountIds |->
                   IF a = "a1" THEN AccountDoc("google", "oauth2") ELSE NoAccountDoc]
  /\ secrets = [a \in AccountIds |->
                  IF a = "a1" THEN OAuth2Credentials(0, 0, 10) ELSE NoSecret]
  /\ config = FullConfig
  /\ tokenLog = << >>
  /\ credRet = NoCredRet
  /\ syncState = [a \in AccountIds |-> NoSyncState]
  /\ remote = {}
  /\ pass = NoPass
  /\ syncRet = NoSyncRet
  /\ toolLog = NoToolLog
  /\ tasks = [t \in TaskIds |-> NoTask]
  /\ workerDisposables = NoWorker
  /\ sink = [k \in ReminderKeys |-> 0]
  /\ remRet = NoRemRet
  /\ settings = [reminderMinutes |-> DefaultReminderMinutes]
  /\ chat = TRUE
  /\ procs = [p \in Callers |-> NoProc]
  /\ raceLog = NoRaceLog

NextDelta ==
  \/ \E item \in RemoteItems : RemoteAdd(item)
  \/ \E i \in 1..Len(RemoteIds) : RemoteCancel(RemoteIds[i])
  \/ StartPass("context")
  \/ SyncNextAccount(Faults)
  \/ EndPass

SpecDelta == InitDelta /\ [][NextDelta]_vars

----------------------------------------------------------------------------
(* Events created through the tool and then synced, for every provider *)

ToolSetups ==
  {<<p1, p2>> : p1 \in {"google", "outlook"}, p2 \in {"caldav", "icloud", "ical"}}

InitTool ==
  /\ events = {}
  /\ clock = 0
  /\ nextId = 1
  /\ ret = NoRet
  /\ \E s \in ToolSetups :
       accounts = [a \in AccountIds |->
                     IF a = "a1" THEN AccountDoc(s[1], "oauth2")
                     ELSE AccountDoc(s[2], IF s[2] = "ical" THEN "none" ELSE "password")]
  /\ secrets = [a \in AccountIds |->
                  IF a = "a1" THEN OAuth2Credentials(0, 0, 10)
                  ELSE IF accounts[a].authType = "none" THEN NoCredentials
                  ELSE PasswordCredentials]
  /\ config = FullConfig
  /\ tokenLog = << >>
  /\ credRet = NoCredRet
  /\ syncState = [a \in AccountIds |-> NoSyncState]
  /\ remote = {}
  /\ pass = NoPass
  /\ syncRet = NoSyncRet
  /\ toolLog = NoToolLog
  /\ tasks = [t \in TaskIds |-> NoTask]
  /\ workerDisposables = NoWorker
  /\ sink = [k \in ReminderKeys |-> 0]
  /\ remRet = NoRemRet
  /\ settings = [reminderMinutes |-> DefaultReminderMinutes]
  /\ chat = TRUE
  /\ procs = [p \in Callers |-> NoProc]
  /\ raceLog = NoRaceLog

NextTool ==
  \/ \E id \in AccountIds, input \in CreateInputs, slot \in RemoteItems :
       CreateEvent(id, input, slot)
  \/ StartPass("context")
  \/ SyncNextAccount({"none"})
  \/ EndPass

SpecTool == InitTool /\ [][NextTool]_vars

----------------------------------------------------------------------------
(* The worker of a user with cached events and no enabled account *)

InitRem ==
  /\ events = ReminderCache
  /\ clock = 0
  /\ nextId = 3
  /\ ret = NoRet
  /\ accounts = [a \in AccountIds |->
                   IF a = "a1" THEN DisabledDoc("caldav", "password") ELSE NoAccountDoc]
  /\ secrets = [a \in AccountIds |-> IF a = "a1" THEN PasswordCredentials ELSE NoSecret]
  /\ config = FullConfig
  /\ tokenLog = << >>
  /\ credRet = NoCredRet
  /\ syncState = [a \in AccountIds |-> NoSyncState]
  /\ remote = {}
  /\ pass = NoPass
  /\ syncRet = NoSyncRet
  /\ toolLog = NoToolLog
  /\ tasks = [t \in TaskIds |-> NoTask]
  /\ workerDisposables = NoWorker
  /\ sink = [k \in ReminderKeys |-> 0]
  /\ remRet = NoRemRet
  /\ settings = [reminderMinutes |-> DefaultReminderMinutes]
  /\ chat \in BOOLEAN
  /\ procs = [p \in Callers |-> NoProc]
  /\ raceLog = NoRaceLog

NextRem ==
  \/ \E t \in TaskIds : StartWorkerForUser(t)
  \/ \E t \in TaskIds : RegisterWorker(t)
  \/ StopAll
  \/ \E t \in TaskIds : WorkerSyncPhase(t)
  \/ \E t \in TaskIds : ReminderPhaseStart(t)
  \/ \E t \in TaskIds, accepts \in BOOLEAN : RemindNext(t, accepts)
  \/ \E t \in TaskIds : ReminderPhaseEnd(t)
  \/ \E t \in TaskIds : Wake(t)
  \/ Advance

SpecRem == InitRem /\ [][NextRem]_vars

----------------------------------------------------------------------------
(* The worker's sync phase, a sync tool call and a create tool call at once *)

Done(p) == [NoProc EXCEPT !.pc = "done", !.failed = procs[p].failed]

(* accounts.list() at the start of a pass: the accounts as they are stored then *)
PassBegins(p) ==
  /\ p \in SyncCallers
  /\ procs[p].pc = "idle"
  /\ procs' = [procs EXCEPT ![p].pc = "first", ![p].first = AccountOf("a1"),
                            ![p].account = AccountOf(RacingAccount)]
  /\ UNCHANGED <<repoVars, acctVars, syncVars, remVars, raceLog>>

(* The pass syncs the account that comes first in the list, an iCal feed *)
SyncFirstAccount(p) ==
  /\ procs[p].pc = "first"
  /\ LET r == SyncAccountEventsResult(procs[p].first, "none", FALSE,
                                      [ok |-> FALSE, rotates |-> FALSE, expiresIn |-> 0],
                                      [outcome |-> "ok", delta |-> {}])
     IN /\ r.nextId <= MaxIds + 1
        /\ events' = r.events
        /\ nextId' = r.nextId
        /\ syncState' = r.syncState
        /\ accounts' = r.accounts
  /\ procs' = [procs EXCEPT ![p].pc = "turn", ![p].first = NoSnapshot]
  /\ UNCHANGED <<clock, ret, secrets, config, tokenLog, credRet, remote, pass, syncRet,
                 toolLog, remVars, raceLog>>

(* accounts.get(input.accountId) of the create tool *)
CreateBegins(p) ==
  /\ p = "create"
  /\ procs[p].pc = "idle"
  /\ accounts[RacingAccount] # NoAccountDoc
  /\ procs' = [procs EXCEPT ![p].pc = "turn", ![p].account = AccountOf(RacingAccount)]
  /\ UNCHANGED <<repoVars, acctVars, syncVars, remVars, raceLog>>

AfterCredentials(p) == IF p = "create" THEN "remote" ELSE "state"

(* ensureFreshCredentials up to its first await: the expiry of the credentials
   the caller holds is tested and, when due, the refresh grant is sent *)
EnsureFreshBegins(p) ==
  /\ procs[p].pc = "turn"
  /\ LET account == procs[p].account
         r == EnsureFreshResult(account, config, clock,
                                [ok |-> TRUE, rotates |-> FALSE, expiresIn |-> 10], 0)
     IN IF r.grant
        THEN /\ Len(tokenLog) < MaxTokenRequests
             /\ tokenLog' = Append(tokenLog, [account |-> account.id,
                                              refreshToken |-> account.credentials.refreshToken])
             /\ procs' = [procs EXCEPT ![p].pc = "grant", ![p].serial = Len(tokenLog) + 1]
             /\ raceLog' = [raceLog EXCEPT
                              !.reused = @ \/ account.credentials.refreshToken \in raceLog.retired]
        ELSE /\ UNCHANGED <<tokenLog, raceLog>>
             /\ procs' = [procs EXCEPT
                            ![p].pc = IF r.outcome = "error" THEN "status"
                                      ELSE AfterCredentials(p),
                            ![p].failed = r.outcome = "error",
                            ![p].credentials = account.credentials]
  /\ UNCHANGED <<repoVars, accounts, secrets, config, credRet, syncVars, remVars>>

(* The token endpoint answers the grant *)
GrantReturns(p, resp) ==
  /\ procs[p].pc = "grant"
  /\ LET r == EnsureFreshResult(procs[p].account, config, clock, resp, procs[p].serial)
     IN IF r.outcome = "refreshed"
        THEN /\ procs' = [procs EXCEPT ![p].pc = "save", ![p].credentials = r.credentials]
             /\ raceLog' = [raceLog EXCEPT
                              !.lastGrant = procs[p].serial,
                              !.retired = IF resp.rotates
                                          THEN @ \cup {procs[p].account.credentials.refreshToken}
                                          ELSE @]
        ELSE /\ procs' = IF p = "create"
                         THEN [procs EXCEPT ![p] = [NoProc EXCEPT !.pc = "done", !.failed = TRUE]]
                         ELSE [procs EXCEPT ![p].pc = "status", ![p].failed = TRUE]
             /\ UNCHANGED raceLog
  /\ UNCHANGED <<repoVars, acctVars, syncVars, remVars>>

(* await accountsRepo.updateCredentials(account.id, newCredentials) *)
SaveCredentials(p) ==
  /\ procs[p].pc = "save"
  /\ secrets' = UpdateCredentials(secrets, procs[p].account.id, procs[p].credentials)
  /\ procs' = [procs EXCEPT ![p].pc = AfterCredentials(p), ![p].serial = 0]
  /\ UNCHANGED <<repoVars, accounts, config, tokenLog, credRet, syncVars, remVars, raceLog>>

(* await userRepo.syncState.get(account.id) *)
ReadSyncState(p) ==
  /\ procs[p].pc = "state"
  /\ procs' = [procs EXCEPT ![p].pc = "fetch", ![p].syncToken = syncState[procs[p].account.id].syncToken]
  /\ UNCHANGED <<repoVars, acctVars, syncVars, remVars, raceLog>>

(* await provider.syncEvents(...): the server answers; nothing is cancelled on
   the server here, so the result carries no deletedUids *)
ProviderFetch(p) ==
  /\ procs[p].pc = "fetch"
  /\ \E fetch \in Fetches(procs[p].account, procs[p].syncToken) :
       /\ fetch.outcome = "ok"
       /\ LET id == procs[p].account.id
              sr == ProviderSyncEvents(procs[p].account, procs[p].credentials,
                                       procs[p].syncToken,
                                       {it \in remote : it.account = id}, fetch)
          IN procs' = [procs EXCEPT
                         ![p].pc = IF sr.threw THEN "status"
                                   ELSE IF sr.events = << >> THEN "cursor" ELSE "find",
                         ![p].failed = sr.threw,
                         ![p].queue = SyncUpsertInputs(sr.events),
                         ![p].cursor = SyncStateDoc(sr.syncToken, sr.deltaLink),
                         ![p].syncToken = "null"]
  /\ UNCHANGED <<repoVars, acctVars, syncVars, remVars, raceLog>>

(* await provider.createEvent(account, credentials, input) of the create tool *)
CreateRemote(p, input, slot) ==
  /\ procs[p].pc = "remote"
  /\ slot.account = procs[p].account.id
  /\ \A it \in remote : it.id # slot.id
  /\ LET c == ProviderCreateEvent(procs[p].account, procs[p].credentials, input, slot,
                                  GenerateUid(1))
     IN IF c.threw
        THEN /\ procs' = [procs EXCEPT ![p] = [NoProc EXCEPT !.pc = "done", !.failed = TRUE]]
             /\ UNCHANGED remote
        ELSE /\ remote' = remote \cup {c.item}
             /\ procs' = [procs EXCEPT
                            ![p].pc = "find",
                            ![p].queue = <<[uid |-> c.uid, title |-> c.title,
                                            startAt |-> input.startAt, endAt |-> input.endAt,
                                            responseStatus |-> NullishToNull(c.responseStatus)]>>]
  /\ UNCHANGED <<repoVars, acctVars, syncState, pass, syncRet, toolLog, remVars, raceLog>>

(* upsertByUid up to its await: const existing = await this.getByUid(...) *)
UpsertFind(p) ==
  /\ procs[p].pc = "find"
  /\ LET found == FindByUid(events, procs[p].account.id, Head(procs[p].queue).uid)
     IN \E existing \in (IF found = {} THEN {NoDoc} ELSE found) :
          procs' = [procs EXCEPT ![p].pc = "put", ![p].existing = existing]
  /\ UNCHANGED <<repoVars, acctVars, syncVars, remVars, raceLog>>

(* upsertByUid after the lookup: await this.storage.put(...) under the id of the
   row found, or under a new id *)
UpsertPut(p) ==
  /\ procs[p].pc = "put"
  /\ LET id == procs[p].account.id
         event == Head(procs[p].queue)
         existing == procs[p].existing
         rowId == IF existing # NoDoc THEN existing.id ELSE nextId
         doc == EventDoc(rowId, id, event,
                         IF existing # NoDoc THEN existing.createdAt ELSE clock, clock)
     IN /\ existing = NoDoc => nextId <= MaxIds
        /\ events' = StoragePut(events, rowId, doc)
        /\ nextId' = IF existing # NoDoc THEN nextId ELSE nextId + 1
        /\ raceLog' = [raceLog EXCEPT !.puts = @ \cup {<<p, event.uid>>}]
        /\ procs' = IF Len(procs[p].queue) > 1
                    THEN [procs EXCEPT ![p].pc = "find", ![p].queue = Tail(@),
                                       ![p].existing = NoDoc]
                    ELSE IF p = "create" THEN [procs EXCEPT ![p] = Done(p)]
                    ELSE [procs EXCEPT ![p].pc = "cursor", ![p].queue = << >>,
                                       ![p].existing = NoDoc]
  /\ UNCHANGED <<clock, ret, acctVars, syncVars, remVars>>

(* await userRepo.syncState.upsert(account.id, syncToken, deltaLink) *)
WriteCursor(p) ==
  /\ procs[p].pc = "cursor"
  /\ syncState' = [syncState EXCEPT ![procs[p].account.id] = procs[p].cursor]
  /\ procs' = [procs EXCEPT ![p].pc = "status", ![p].cursor = NoSyncState]
  /\ UNCHANGED <<repoVars, acctVars, remote, pass, syncRet, toolLog, remVars, raceLog>>

(* await userRepo.accounts.updateSyncStatus(account.id, null), or with the
   error message in the catch block; the pass is over after its last account *)
WriteStatus(p) ==
  /\ procs[p].pc = "status"
  /\ accounts' = UpdateSyncStatus(accounts, procs[p].account.id,
                                  IF procs[p].failed THEN ErrorMessage("sync") ELSE "null",
                                  clock)
  /\ procs' = [procs EXCEPT ![p] = Done(p)]
  /\ UNCHANGED <<repoVars, secrets, config, tokenLog, credRet, syncVars, remVars, raceLog>>

(* The second account's token is due at once, or not yet *)
RaceExpiries == {5, 10}

(* What the token endpoint answers to a grant here: a rejection, or a token
   response with or without a new refresh_token *)
RaceTokenResponses ==
  {[ok |-> FALSE, rotates |-> FALSE, expiresIn |-> 0],
   [ok |-> TRUE, rotates |-> FALSE, expiresIn |-> 10],
   [ok |-> TRUE, rotates |-> TRUE, expiresIn |-> 10]}

InitRace ==
  /\ events = {}
  /\ clock = 0
  /\ nextId = 1
  /\ ret = NoRet
  /\ accounts = [a \in AccountIds |->
                   IF a = "a1" THEN AccountDoc("ical", "none")
                   ELSE AccountDoc("google", "oauth2")]
  /\ \E exp \in RaceExpiries :
       secrets = [a \in AccountIds |->
                    IF a = "a1" THEN NoCredentials ELSE OAuth2Credentials(0, 0, exp)]
  /\ config = FullConfig
  /\ tokenLog = << >>
  /\ credRet = NoCredRet
  /\ syncState = [a \in AccountIds |-> NoSyncState]
  /\ remote \in {{}, {it \in RemoteItems : it.account = RacingAccount}}
  /\ pass = NoPass
  /\ syncRet = NoSyncRet
  /\ toolLog = NoToolLog
  /\ tasks = [t \in TaskIds |-> NoTask]
  /\ workerDisposables = NoWorker
  /\ sink = [k \in ReminderKeys |-> 0]
  /\ remRet = NoRemRet
  /\ settings = [reminderMinutes |-> DefaultReminderMinutes]
  /\ chat = TRUE
  /\ procs = [p \in Callers |-> NoProc]
  /\ raceLog = NoRaceLog

NextRace ==
  \/ \E p \in Callers : PassBegins(p)
  \/ \E p \in Callers : SyncFirstAccount(p)
  \/ \E p \in Callers : CreateBegins(p)
  \/ \E p \in Callers : EnsureFreshBegins(p)
  \/ \E p \in Callers, resp \in RaceTokenResponses : GrantReturns(p, resp)
  \/ \E p \in Callers : SaveCredentials(p)
  \/ \E p \in Callers : ReadSyncState(p)
  \/ \E p \in Callers : ProviderFetch(p)
  \/ \E p \in Callers, input \in CreateInputs, slot \in RemoteItems : CreateRemote(p, input, slot)
  \/ \E p \in Callers : UpsertFind(p)
  \/ \E p \in Callers : UpsertPut(p)
  \/ \E p \in Callers : WriteCursor(p)
  \/ \E p \in Callers : WriteStatus(p)

SpecRace == InitRace /\ [][NextRace]_vars

----------------------------------------------------------------------------
(* The worker of a user with two enabled accounts, and its cancellation *)

(* while (!ctx.signal.aborted), then the sync phase begins: the accounts are listed *)
WorkerPassBegins(t) ==
  /\ tasks[t].pc = "loop"
  /\ procs["worker"].pc = "idle"
  /\ IF tasks[t].aborted
     THEN /\ tasks' = [tasks EXCEPT ![t].pc = "stopped"]
          /\ UNCHANGED procs
     ELSE /\ tasks' = [tasks EXCEPT ![t].pc = "sync"]
          /\ procs' = [procs EXCEPT !["worker"].pc = "first",
                                    !["worker"].first = AccountOf("a1"),
                                    !["worker"].account = AccountOf(RacingAccount)]
  /\ UNCHANGED <<repoVars, acctVars, syncVars, raceLog,
                 workerDisposables, sink, remRet, settings, chat>>

(* The worker is about to call syncAccountEvents for the next account of its list *)
BeforeAccount(p) == procs[p].pc \in {"first", "turn"}

(* One step of the sync phase: if (ctx.signal.aborted) break stands before every
   call of syncAccountEvents, and nowhere inside it *)
WorkerSyncStep(t) ==
  /\ tasks[t].pc = "sync"
  /\ BeforeAccount("worker") => ~tasks[t].aborted
  /\ \/ SyncFirstAccount("worker")
     \/ EnsureFreshBegins("worker")
     \/ ReadSyncState("worker")
     \/ ProviderFetch("worker")
     \/ UpsertFind("worker")
     \/ UpsertPut("worker")
     \/ WriteCursor("worker")
     \/ WriteStatus("worker")

(* The loop over the accounts is left, at its end or by break: emitEventChanged,
   then if (ctx.signal.aborted) break *)
WorkerPassEnds(t) ==
  /\ tasks[t].pc = "sync"
  /\ procs["worker"].pc = "done" \/ (BeforeAccount("worker") /\ tasks[t].aborted)
  /\ procs' = [procs EXCEPT !["worker"] = NoProc]
  /\ tasks' = [tasks EXCEPT ![t].pc = IF tasks[t].aborted THEN "stopped" ELSE "reminders"]
  /\ UNCHANGED <<repoVars, acctVars, syncVars, raceLog,
                 workerDisposables, sink, remRet, settings, chat>>

InitStop ==
  /\ events = {r \in ReminderCache : r.id = 1}
  /\ clock = 0
  /\ nextId = 2
  /\ ret = NoRet
  /\ accounts = [a \in AccountIds |->
                   IF a = "a1" THEN AccountDoc("ical", "none")
                   ELSE AccountDoc("caldav", "password")]
  /\ secrets = [a \in AccountIds |-> IF a = "a1" THEN NoCredentials ELSE PasswordCredentials]
  /\ config = FullConfig
  /\ tokenLog = << >>
  /\ credRet = NoCredRet
  /\ syncState = [a \in AccountIds |-> NoSyncState]
  /\ remote = {it \in RemoteItems : it.account = "a2"}
  /\ pass = NoPass
  /\ syncRet = NoSyncRet
  /\ toolLog = NoToolLog
  /\ tasks = [t \in TaskIds |-> NoTask]
  /\ workerDisposables = NoWorker
  /\ sink = [k \in ReminderKeys |-> 0]
  /\ remRet = NoRemRet
  /\ settings = [reminderMinutes |-> DefaultReminderMinutes]
  /\ chat = TRUE
  /\ procs = [p \in Callers |-> NoProc]
  /\ raceLog = NoRaceLog

(* The steps of the task itself *)
TaskStep(t) ==
  \/ WorkerPassBegins(t)
  \/ WorkerSyncStep(t)
  \/ WorkerPassEnds(t)
  \/ ReminderPhaseStart(t)
  \/ \E accepts \in BOOLEAN : RemindNext(t, accepts)
  \/ ReminderPhaseEnd(t)
  \/ Wake(t)

NextStop ==
  \/ StartWorkerForUser("t1")
  \/ RegisterWorker("t1")
  \/ StopAll
  \/ TaskStep("t1")
  \/ Advance

SpecStop == InitStop /\ [][NextStop]_vars

(* The host runs the task: a step of the task that can be taken is taken *)
SpecStopFair == SpecStop /\ WF_vars(TaskStep("t1"))

----------------------------------------------------------------------------
(* list() called on caches of up to three events *)

(* Rows that differ in start, end and response: the first has ended by minute 2,
   the second is declined *)
ListRows ==
  {[id |-> 1, accountId |-> "a1", uid |-> "u1", title |-> "t1", startAt |-> 0, endAt |-> 1,
    responseStatus |-> "null", createdAt |-> 0, updatedAt |-> 0],
   [id |-> 2, accountId |-> "a1", uid |-> "u2", title |-> "t2", startAt |-> 1, endAt |-> 2,
    responseStatus |-> "declined", createdAt |-> 0, updatedAt |-> 0],
   [id |-> 3, accountId |-> "a1", uid |-> "u3", title |-> "t1", startAt |-> 2, endAt |-> 3,
    responseStatus |-> "accepted", createdAt |-> 0, updatedAt |-> 0],
   [id |-> 4, accountId |-> "a2", uid |-> "u1", title |-> "t1", startAt |-> 1, endAt |-> 3,
    responseStatus |-> "null", createdAt |-> 0, updatedAt |-> 0]}

ListLimits == {1, 100}
ListOffsets == {0, 1}
ListTimes == {NoTime, 1, 2}

(* list({accountId, from, to, limit, offset}): what was asked and what came back *)
ListCall(accountId, from, to, limit, offset) ==
  /\ \E res \in List(events, accountId, from, to, limit, offset) :
       ret' = [op |-> "list", accountId |-> accountId, from |-> from, to |-> to,
               limit |-> limit, offset |-> offset, result |-> res]
  /\ UNCHANGED <<events, clock, nextId, acctVars, syncVars, remVars, raceVars>>

InitList ==
  /\ events \in SUBSET ListRows
  /\ clock = 0
  /\ nextId = 5
  /\ ret = NoRet
  /\ accounts = [a \in AccountIds |-> DisabledDoc("caldav", "password")]
  /\ secrets = [a \in AccountIds |-> PasswordCredentials]
  /\ config = FullConfig
  /\ tokenLog = << >>
  /\ credRet = NoCredRet
  /\ syncState = [a \in AccountIds |-> NoSyncState]
  /\ remote = {}
  /\ pass = NoPass
  /\ syncRet = NoSyncRet
  /\ toolLog = NoToolLog
  /\ tasks = [t \in TaskIds |-> NoTask]
  /\ workerDisposables = NoWorker
  /\ sink = [k \in ReminderKeys |-> 0]
  /\ remRet = NoRemRet
  /\ settings = [reminderMinutes |-> DefaultReminderMinutes]
  /\ chat = TRUE
  /\ procs = [p \in Callers |-> NoProc]
  /\ raceLog = NoRaceLog

NextList ==
  \E a \in AccountIds \cup {NoAccount}, from \in ListTimes, to \in ListTimes,
     limit \in ListLimits, offset \in ListOffsets : ListCall(a, from, to, limit, offset)

SpecList == InitList /\ [][NextList]_vars

----------------------------------------------------------------------------
(* Accounts deleted between sync passes *)

DeleteFaults == {"none", "events", "syncState", "secrets", "accounts"}

(* (SecretsKept: the credentials secret is left in place) *)
SecretsKept(secs, id) == secs

(* this.secrets.delete(getCredentialsKey(id)) *)
SecretsDelete(secs, id) == [secs EXCEPT ![id] = NoSecret]

(* syncState.delete(accountId): deleteMany({accountId}) *)
SyncStateDelete(states, id) == [states EXCEPT ![id] = NoSyncState]

(* accounts.delete(id): false when there is no document, else the secret and
   then the document are removed.  fault: the storage call that throws *)
AccountsDelete(id, fault) ==
  IF accounts[id] = NoAccountDoc
  THEN [deleted |-> FALSE, threw |-> FALSE, secrets |-> secrets, accounts |-> accounts]
  ELSE IF fault = "secrets"
  THEN [deleted |-> FALSE, threw |-> TRUE, secrets |-> secrets, accounts |-> accounts]
  ELSE IF fault = "accounts"
  THEN [deleted |-> FALSE, threw |-> TRUE, secrets |-> SecretsDelete(secrets, id),
        accounts |-> accounts]
  ELSE [deleted |-> TRUE, threw |-> FALSE, secrets |-> SecretsDelete(secrets, id),
        accounts |-> [accounts EXCEPT ![id] = NoAccountDoc]]

(* cal_accounts_delete (via "tool") or the deleteAccount action (via "action")
   for account id, while no sync pass runs: the events, the sync state, the
   secret and the document are removed in this order, and an error of a storage
   call is caught and reported *)
DeleteAccount(id, fault, via) ==
  /\ pass.stage # "running"
  /\ LET threwEarly == fault \in {"events", "syncState"}
         d == AccountsDelete(id, fault)
     IN /\ events' = IF fault = "events" THEN events ELSE StorageDeleteMany(events, id)
        /\ syncState' = IF threwEarly THEN syncState ELSE SyncStateDelete(syncState, id)
        /\ secrets' = IF threwEarly THEN secrets ELSE d.secrets
        /\ accounts' = IF threwEarly THEN accounts ELSE d.accounts
        /\ ret' = [op |-> "deleteAccount", doc |-> NoDoc, id |-> id,
                   existed |-> accounts[id] # NoAccountDoc,
                   hadEvents |-> \E r \in events : r.accountId = id,
                   hadCursor |-> syncState[id].present,
                   success |-> /\ ~threwEarly /\ ~d.threw
                               /\ (via = "tool" => d.deleted)]
  /\ UNCHANGED <<clock, nextId, config, tokenLog, credRet, remote, pass, syncRet, toolLog,
                 remVars, raceVars>>

(* One event on each account's server *)
DelItems == {it \in RemoteItems : it.iCalUID # ""}

InitDel ==
  /\ events = {}
  /\ clock = 0
  /\ nextId = 1
  /\ ret = NoRet
  /\ accounts = [a \in AccountIds |->
                   IF a = "a1" THEN AccountDoc("google", "oauth2")
                   ELSE AccountDoc("caldav", "password")]
  /\ secrets = [a \in AccountIds |->
                  IF a = "a1" THEN OAuth2Credentials(0, 0, 10) ELSE PasswordCredentials]
  /\ config = FullConfig
  /\ tokenLog = << >>
  /\ credRet = NoCredRet
  /\ syncState = [a \in AccountIds |-> NoSyncState]
  /\ remote = DelItems
  /\ pass = NoPass
  /\ syncRet = NoSyncRet
  /\ toolLog = NoToolLog
  /\ tasks = [t \in TaskIds |-> NoTask]
  /\ workerDisposables = NoWorker
  /\ sink = [k \in ReminderKeys |-> 0]
  /\ remRet = NoRemRet
  /\ settings = [reminderMinutes |-> DefaultReminderMinutes]
  /\ chat = TRUE
  /\ procs = [p \in Callers |-> NoProc]
  /\ raceLog = NoRaceLog

NextDel ==
  \/ StartPass("context")
  \/ SyncNextAccount({"none"})
  \/ EndPass
  \/ \E id \in AccountIds, fault \in DeleteFaults, via \in {"tool", "action"} :
       DeleteAccount(id, fault, via)

SpecDel == InitDel /\ [][NextDel]_vars

----------------------------------------------------------------------------
(* The write tools on a Google account and an iCal feed *)

InitWrite ==
  /\ events = {}
  /\ clock = 0
  /\ nextId = 1
  /\ ret = NoRet
  /\ accounts = [a \in AccountIds |->
                   IF a = "a1" THEN AccountDoc("google", "oauth2")
                   ELSE AccountDoc("ical", "none")]
  /\ secrets = [a \in AccountIds |->
                  IF a = "a1" THEN OAuth2Credentials(0, 0, 10) ELSE NoCredentials]
  /\ config = FullConfig
  /\ tokenLog = << >>
  /\ credRet = NoCredRet
  /\ syncState = [a \in AccountIds |-> NoSyncState]
  /\ remote \in {S \in SUBSET RemoteItems : \A i, j \in S : i.id = j.id => i = j}
  /\ pass = NoPass
  /\ syncRet = NoSyncRet
  /\ toolLog = NoToolLog
  /\ tasks = [t \in TaskIds |-> NoTask]
  /\ workerDisposables = NoWorker
  /\ sink = [k \in ReminderKeys |-> 0]
  /\ remRet = NoRemRet
  /\ settings = [reminderMinutes |-> DefaultReminderMinutes]
  /\ chat = TRUE
  /\ procs = [p \in Callers |-> NoProc]
  /\ raceLog = NoRaceLog

NextWrite ==
  \/ StartPass("context")
  \/ SyncNextAccount({"none"})
  \/ EndPass
  \/ \E id \in AccountIds, input \in CreateInputs, slot \in RemoteItems :
       CreateEvent(id, input, slot)
  \/ \E op \in {"update", "delete"}, rowId \in 1..MaxIds, update \in UpdateInputs,
        hasUrl \in BOOLEAN :
       WriteEvent(op, rowId, update, hasUrl)

SpecWrite == InitWrite /\ [][NextWrite]_vars

----------------------------------------------------------------------------
(* The worker of a user who is reminded a quarter of an hour or more than a day
   ahead, with timers that fire on time *)

(* The values of settings.reminderMinutes: the default, and ten minutes more
   than the window the reminder phase scans *)
LeadTimes == {DefaultReminderMinutes, UpcomingWindowMinutes + 10}

(* Cached events whose reminder instants are minutes 1, 2 and 3; the third is
   declined *)
LeadRows(lead) ==
  {[id |-> 1, accountId |-> "a1", uid |-> "u1", title |-> "t1", startAt |-> 1 + lead,
    endAt |-> 31 + lead, responseStatus |-> "null", createdAt |-> 0, updatedAt |-> 0],
   [id |-> 2, accountId |-> "a1", uid |-> "u2", title |-> "t2", startAt |-> 2 + lead,
    endAt |-> 32 + lead, responseStatus |-> "accepted", createdAt |-> 0, updatedAt |-> 0],
   [id |-> 3, accountId |-> "a1", uid |-> "u1", title |-> "t1", startAt |-> 3 + lead,
    endAt |-> 33 + lead, responseStatus |-> "declined", createdAt |-> 0, updatedAt |-> 0]}

(* A minute passes while the task sleeps and its timer is not yet due: the
   phases of the loop take less than a minute and setTimeout is on time *)
AdvanceAsleep(t) ==
  /\ clock < Horizon
  /\ tasks[t].pc = "sleep"
  /\ clock < tasks[t].wakeAt
  /\ clock' = clock + 1
  /\ UNCHANGED <<events, nextId, ret, acctVars, syncVars, remVars, raceVars>>

InitLead ==
  /\ \E lead \in LeadTimes :
       /\ settings = [reminderMinutes |-> lead]
       /\ events \in SUBSET LeadRows(lead) \ {{}}
       /\ sink = [k \in {ReminderKey(e) : e \in LeadRows(lead)} |-> 0]
  /\ clock = 0
  /\ nextId = 4
  /\ ret = NoRet
  /\ accounts = [a \in AccountIds |->
                   IF a = "a1" THEN DisabledDoc("caldav", "password") ELSE NoAccountDoc]
  /\ secrets = [a \in AccountIds |-> IF a = "a1" THEN PasswordCredentials ELSE NoSecret]
  /\ config = FullConfig
  /\ tokenLog = << >>
  /\ credRet = NoCredRet
  /\ syncState = [a \in AccountIds |-> NoSyncState]
  /\ remote = {}
  /\ pass = NoPass
  /\ syncRet = NoSyncRet
  /\ toolLog = NoToolLog
  /\ tasks = [t \in TaskIds |-> NoTask]
  /\ workerDisposables = NoWorker
  /\ remRet = NoRemRet
  /\ chat = TRUE
  /\ procs = [p \in Callers |-> NoProc]
  /\ raceLog = NoRaceLog

(* The loop is started when the extension is activated and is not cancelled;
   chat.appendInstruction resolves *)
NextLead ==
  \/ StartWorkerForUser("t1")
  \/ RegisterWorker("t1")
  \/ WorkerSyncPhase("t1")
  \/ ReminderPhaseStart("t1")
  \/ RemindNext("t1", TRUE)
  \/ ReminderPhaseEnd("t1")
  \/ Wake("t1")
  \/ AdvanceAsleep("t1")

SpecLead == InitLead /\ [][NextLead]_vars

----------------------------------------------------------------------------
(* Sync passes over a CalDAV account whose user has answered invitations *)

RsvpItems ==
  {[it EXCEPT !.partstat = ps] :
     it \in {i \in RemoteItems : i.iCalUID # ""}, ps \in {"", "DECLINED", "ACCEPTED"}}

InitRsvp ==
  /\ events = {}
  /\ clock = 0
  /\ nextId = 1
  /\ ret = NoRet
  /\ accounts = [a \in AccountIds |->
                   IF a = "a1" THEN AccountDoc("caldav", "password")
                   ELSE AccountDoc("ical", "none")]
  /\ secrets = [a \in AccountIds |->
                  IF a = "a1" THEN PasswordCredentials ELSE NoCredentials]
  /\ config = FullConfig
  /\ tokenLog = << >>
  /\ credRet = NoCredRet
  /\ syncState = [a \in AccountIds |-> NoSyncState]
  /\ remote = {}
  /\ pass = NoPass
  /\ syncRet = NoSyncRet
  /\ toolLog = NoToolLog
  /\ tasks = [t \in TaskIds |-> NoTask]
  /\ workerDisposables = NoWorker
  /\ sink = [k \in ReminderKeys |-> 0]
  /\ remRet = NoRemRet
  /\ settings = [reminderMinutes |-> DefaultReminderMinutes]
  /\ chat = TRUE
  /\ procs = [p \in Callers |-> NoProc]
  /\ raceLog = NoRaceLog

NextRsvp ==
  \/ \E item \in RsvpItems : RemoteAdd(item)
  \/ StartPass("context")
  \/ SyncNextAccount({"none"})
  \/ EndPass

SpecRsvp == InitRsvp /\ [][NextRsvp]_vars

----------------------------------------------------------------------------
(* Claims about the repository *)

(* C1: after any sequence of upsertByUid, delete and deleteByAccount calls run one
   at a time, the cache holds at most one row per (accountId, uid). *)
C1_UniquePerAccountUid ==
  \A r1, r2 \in events :
    (r1.accountId = r2.accountId /\ r1.uid = r2.uid) => r1 = r2

(* An upsert has hit an existing row while the same uid is also cached for the
   other account *)
C1_Witness ==
  /\ ret.op = "upsert_existing"
  /\ \E r1, r2 \in events : r1.uid = r2.uid /\ r1.accountId # r2.accountId

(* C2: an upsertByUid for an (accountId, uid) that is already cached returns the
   id and createdAt of the cached row, every other field is the one given in this
   upsert (updatedAt is the time of the call), and no other row is created,
   removed or changed. *)
C2_UpsertKeepsIdentity ==
  [][\A a \in AccountIds, ev \in EventInputs :
       (UpsertByUid(a, ev) /\ \E r \in events : r.accountId = a /\ r.uid = ev.uid) =>
         \E old \in events :
           /\ old.accountId = a /\ old.uid = ev.uid
           /\ ret'.doc.id = old.id
           /\ ret'.doc.createdAt = old.createdAt
           /\ ret'.doc.accountId = a /\ ret'.doc.uid = ev.uid
           /\ ret'.doc.title = ev.title
           /\ ret'.doc.startAt = ev.startAt /\ ret'.doc.endAt = ev.endAt
           /\ ret'.doc.responseStatus = NullishToNull(ev.responseStatus)
           /\ ret'.doc.updatedAt = clock
           /\ ret'.doc \in events'
           /\ {r \in events' : r.id # old.id} = {r \in events : r.id # old.id}
           /\ Cardinality(events') = Cardinality(events)]_vars

(* A second upsert, later than the first, has rewritten a row next to another row *)
C2_Witness ==
  /\ ret.op = "upsert_existing"
  /\ ret.doc.updatedAt > ret.doc.createdAt
  /\ Cardinality(events) >= 2

(* C6: in every reachable cache state, list() and getUpcoming() return no event
   whose stored responseStatus is declined, whatever accountId, from, to, limit
   and offset are. *)
C6_NoDeclinedListed ==
  /\ \A a \in AccountIds \cup {NoAccount}, from \in ListTimes, to \in ListTimes,
        limit \in ListLimits, offset \in ListOffsets :
       \A res \in List(events, a, from, to, limit, offset) :
         \A i \in 1..Len(res) : res[i].responseStatus # "declined"
  /\ \A from \in ListTimes, to \in ListTimes :
       \A res \in GetUpcoming(events, from, to) :
         \A i \in 1..Len(res) : res[i].responseStatus # "declined"

(* A declined row is cached next to a row that list() does return *)
C6_Witness ==
  /\ \E r \in events : r.responseStatus = "declined"
  /\ \E res \in List(events, NoAccount, NoTime, NoTime, 100, 0) : Len(res) >= 1

----------------------------------------------------------------------------
(* Claims about the sync orchestrator *)

EnabledAccounts == {a \in AccountIds : accounts[a] # NoAccountDoc /\ accounts[a].enabled}

(* C3 as stated: at the end of a sync pass (syncAllAccountsWithContext or the
   worker's sync phase) in which the sync of an enabled account failed at some
   stage, that account's lastError is a non-null string, the pass ran to its end,
   every enabled account of the list was synced, and the events returned for the
   accounts whose sync succeeded are cached. *)
C3_AsStated ==
  (pass.stage = "done" /\ pass.failed # {}) =>
    /\ \A a \in pass.failed : accounts[a].lastError # "null"
    /\ pass.emitted
    /\ \A b \in EnabledAccounts : b \in pass.called
    /\ \A d \in pass.due : \E r \in events : r.accountId = d[1] /\ r.uid = d[2]

(* C3 amended: at the end of a sync pass in which the sync of an enabled account
   failed at some stage, that account's lastError is a non-null string unless the
   write of the error status failed as well (that error is ignored), no exception
   left syncAccountEvents and the pass ran to its end, every enabled account of
   the list was synced unless the pass is the worker's and its abort signal was
   raised, and the events returned for the accounts whose sync succeeded are
   cached. *)
C3_FailureIsContained ==
  (pass.stage = "done" /\ pass.failed # {}) =>
    /\ \A a \in pass.failed \ pass.unrecorded : accounts[a].lastError # "null"
    /\ pass.emitted
    /\ \A b \in EnabledAccounts : b \in pass.called \/ (pass.mode = "worker" /\ pass.aborted)
    /\ \A d \in pass.due : \E r \in events : r.accountId = d[1] /\ r.uid = d[2]

(* A pass is over in which the first account failed, its error was recorded, and
   the second account was synced and its event cached *)
C3_Witness ==
  /\ pass.stage = "done"
  /\ "a1" \in pass.failed \ pass.unrecorded
  /\ accounts["a1"].lastError # "null"
  /\ "a2" \in pass.called \ pass.failed
  /\ accounts["a2"].lastError = "null"
  /\ \E d \in pass.due : d[1] = "a2" /\ \E r \in events : r.accountId = "a2" /\ r.uid = d[2]

(* C4: when syncAccountEvents runs for a Google account that has a stored sync
   token, the delta is returned and no storage call of the pass is made to fail,
   then for every cancelled item of the delta with uid X (iCalUID, or id when
   there is none) no cached event of the account has uid X afterwards and the
   account's lastError is null; rows that are neither tombstoned nor upserted
   stay as they were, and tombstones for uids that are not cached leave the cache
   unchanged. *)
C4_TombstoneRemovesCachedEvent ==
  [][(/\ pass'.idx = pass.idx + 1
      /\ syncRet'.called
      /\ syncRet'.provider = "google"
      /\ syncRet'.hadToken
      /\ syncRet'.fetched
      /\ syncRet'.stage \in {"none", "tombstone"}
      /\ syncRet'.deletedUids # {})
     => LET acc == syncRet'.account
            touched == syncRet'.deletedUids \cup {x[2] : x \in syncRet'.returned}
            Untouched(coll) == {r \in coll : ~(r.accountId = acc /\ r.uid \in touched)}
        IN /\ \A X \in syncRet'.deletedUids :
                ~\E r \in events' : r.accountId = acc /\ r.uid = X
           /\ accounts'[acc].lastError = "null"
           /\ Untouched(events') = Untouched(events)
           /\ ((syncRet'.returned = {} /\
                \A X \in syncRet'.deletedUids :
                  ~\E r \in events : r.accountId = acc /\ r.uid = X)
               => events' = events)]_vars

(* A delta fetched with a stored token has carried a tombstone, and the cached
   event was removed *)
C4_Witness ==
  /\ syncRet.called /\ syncRet.provider = "google" /\ syncRet.hadToken
  /\ syncRet.stage = "none"
  /\ syncRet.removed # {}
  /\ syncRet.removed \subseteq syncRet.deletedUids
  /\ accounts[syncRet.account].lastError = "null"

(* C10: when an event created through cal_events_create on a write-capable
   provider is returned by a later syncEvents of its account and that sync
   succeeds, the sync computes the uid the creation stored, the cache holds
   exactly one row for the event, and that row has the id assigned at creation
   and the same (accountId, uid). *)
C10_CreatedEventSyncsOntoItsRow ==
  \A c \in toolLog.created : \A x \in syncRet.returned :
    (/\ syncRet.called /\ syncRet.stage = "none"
     /\ syncRet.account = c.account
     /\ x[1] = c.remoteId)
    => /\ x[2] = c.uid
       /\ Cardinality({r \in events : r.accountId = c.account /\ r.uid \in {c.uid, x[2]}}) = 1
       /\ \E r \in events : r.id = c.rowId /\ r.accountId = c.account /\ r.uid = c.uid

(* An event created on a Google account, whose uid is its iCalUID, has come back
   in a sync *)
C10_Witness ==
  \E c \in toolLog.created : \E x \in syncRet.returned :
    /\ syncRet.called /\ syncRet.stage = "none"
    /\ syncRet.account = c.account
    /\ x[1] = c.remoteId
    /\ accounts[c.account].provider = "google"
    /\ c.uid # c.remoteId
    /\ \E r \in events : r.id = c.rowId /\ r.uid = c.uid

(* C16: after a syncAccountEvents pass that completes without error, the
   account's SyncState holds exactly the syncToken and the deltaLink the provider
   returned in that pass, null for each one it did not return, and the account's
   lastError is null; when the stored syncToken is null the next pass hands the
   provider no cursor and, unless a request of it fails, fetches every live event
   of the account. *)
C16_CursorPersistedAfterCleanPass ==
  /\ []((syncRet.called /\ syncRet.stage = "none") =>
          /\ syncState[syncRet.account] =
               [present |-> TRUE, syncToken |-> syncRet.syncToken,
                deltaLink |-> syncRet.deltaLink]
          /\ accounts[syncRet.account].lastError = "null")
  /\ [][(/\ pass'.idx = pass.idx + 1
         /\ syncRet'.called
         /\ syncState[syncRet'.account].syncToken = "null")
        => /\ ~syncRet'.hadToken
           /\ syncRet'.deletedUids = {}
           /\ (/\ syncRet'.stage = "none"
               /\ syncRet'.provider = "google" => syncRet'.syncToken # "null")
                => {x[1] : x \in syncRet'.returned} =
                     {it.id : it \in {i \in remote : i.account = syncRet'.account
                                                     /\ i.status = "confirmed"}}]_vars

(* A pass of an Outlook account ended without error and the deltaLink the server
   returned is stored with a null syncToken *)
C16_Witness ==
  /\ syncRet.called /\ syncRet.stage = "none"
  /\ syncRet.provider = "outlook"
  /\ syncRet.deltaLink = "d1"
  /\ syncState[syncRet.account] = [present |-> TRUE, syncToken |-> "null", deltaLink |-> "d1"]
  /\ accounts[syncRet.account].lastError = "null"

----------------------------------------------------------------------------
(* Claims about the reminder phase *)

(* C7: in a reminder pass evaluated at time now, with reminderInstant = start -
   reminderMinutes, fireReminder is called for a scanned event exactly when
   reminderInstant <= now, reminderInstant > now - 5 minutes and the task has
   not fired the (uid, startAt) pair before; where the chat API takes the
   instruction that is exactly when the reminder is delivered; and an event
   whose reminderInstant is in the future, or 5 minutes or more in the past,
   is neither fired nor delivered in that pass. *)
C7_DeliveredIffDueAndNotFired ==
  remRet.valid =>
    LET reminderInstant == remRet.startAt - remRet.reminderMinutes
        due == /\ reminderInstant <= remRet.now
               /\ reminderInstant > remRet.now - 5
               /\ ~remRet.wasFired
    IN /\ remRet.attempted <=> due
       /\ remRet.delivered => due
       /\ (due /\ remRet.accepted) => remRet.delivered
       /\ (reminderInstant > remRet.now \/ reminderInstant <= remRet.now - 5)
            => (~remRet.attempted /\ ~remRet.delivered)

(* A reminder is delivered in the last minute of its grace window *)
C7_Witness ==
  /\ remRet.valid
  /\ remRet.delivered
  /\ remRet.startAt - remRet.reminderMinutes = remRet.now - 4

(* C8 as stated: with reminderMinutes = 15 a pass delivers the reminder of an
   event starting at T iff it is evaluated at a time in (T - 20, T - 15]
   (taken where the pair is not yet fired and the chat API takes the
   instruction). *)
C8_AsStated ==
  (remRet.valid /\ remRet.reminderMinutes = 15 /\ ~remRet.wasFired /\ remRet.accepted) =>
    (remRet.delivered <=>
       (remRet.now > remRet.startAt - 20 /\ remRet.now <= remRet.startAt - 15))

(* C8, amended: with reminderMinutes = 15 a pass that scans an event starting
   at T delivers its reminder iff it is evaluated at a time in
   [T - 15, T - 10), the task has not fired the (uid, startAt) pair before and
   the chat API takes the instruction. *)
C8_DeliveredInGraceAfterInstant ==
  (remRet.valid /\ remRet.reminderMinutes = 15) =>
    (remRet.delivered <=>
       /\ remRet.now >= remRet.startAt - 15
       /\ remRet.now < remRet.startAt - 10
       /\ ~remRet.wasFired
       /\ remRet.accepted)

(* A later pass of the same task meets, inside the window, a pair it has fired *)
C8_Witness ==
  /\ remRet.valid
  /\ remRet.reminderMinutes = 15
  /\ remRet.wasFired
  /\ remRet.now >= remRet.startAt - 15
  /\ remRet.now < remRet.startAt - 10
  /\ ~remRet.delivered

(* C9: the chat API takes at most one reminder for a (uid, startAt) pair
   while the extension runs. *)
C9_AtMostOneDeliveryPerPair ==
  \A k \in ReminderKeys : sink[k] <= 1

(* Two tasks have each delivered the reminder of the same pair *)
C9_DeliveredTwice ==
  \E k \in ReminderKeys : sink[k] = 2

----------------------------------------------------------------------------
(* Claims about callers that run at the same time *)

(* syncAccountEvents (or the sync tool's loop body) is running for the racing
   account on behalf of caller p *)
SyncInFlight(p) ==
  procs[p].pc \in {"grant", "save", "state", "fetch", "find", "put", "cursor", "status"}

(* C11: at most one sync pass for a given account is in flight at any time,
   whichever call sites have started passes. *)
C11_AtMostOnePassInFlight ==
  Cardinality({p \in SyncCallers : SyncInFlight(p)}) <= 1

(* The worker's pass and the tool's pass are both between two awaits of their
   sync of the same account *)
C11_TwoPassesInFlight ==
  /\ SyncInFlight("worker")
  /\ SyncInFlight("tool")
  /\ procs["worker"].account.id = procs["tool"].account.id

(* C12: for one OAuth2 account no two refresh grants are in flight at the same
   time, no refresh token that the endpoint has already replaced is presented
   again, and once no refresh is under way the stored credentials are those of
   the grant that succeeded last. *)
C12_RefreshesDoNotRace ==
  /\ Cardinality({p \in Callers : procs[p].pc = "grant"}) <= 1
  /\ ~raceLog.reused
  /\ ((\A p \in Callers : procs[p].pc \notin {"grant", "save"}) /\ raceLog.lastGrant # 0)
       => secrets[RacingAccount].accessToken = raceLog.lastGrant

(* Two callers have each sent a grant with the same refresh token and neither
   has been answered *)
C12_TwoGrantsInFlight ==
  \E p, q \in Callers :
    /\ p # q
    /\ procs[p].pc = "grant" /\ procs[q].pc = "grant"
    /\ tokenLog[procs[p].serial] = tokenLog[procs[q].serial]

----------------------------------------------------------------------------
(* Claims about the worker registry and cancellation *)

(* C13: however startWorkerForUser calls overlap, at most one loop of the user
   has been started with the host and not disposed; and once stopAll has run
   with no start call under way, every loop that was started is disposed. *)
C13_OneLoopPerUser ==
  /\ Cardinality({t \in TaskIds : tasks[t].pc # "unused" /\ ~tasks[t].aborted}) <= 1
  /\ (/\ workerDisposables = NoWorker
      /\ \A t \in TaskIds : tasks[t].pc # "unused" => tasks[t].registered)
       => \A t \in TaskIds : tasks[t].pc # "unused" => tasks[t].aborted

(* Two loops of the user run, neither disposed, and the registry holds one *)
C13_TwoLoopsRunning ==
  /\ \A t \in TaskIds : tasks[t].pc \notin {"unused", "stopped"} /\ ~tasks[t].aborted
  /\ \A t \in TaskIds : tasks[t].registered
  /\ workerDisposables # NoWorker

(* C14: once the signal of the loop is aborted, a sleeping loop can wake at
   once, whatever its timer; no further syncAccountEvents call is started and no
   new iteration begins; and the loop reaches 'Worker stopped'. *)
C14_AbortStopsTheLoop ==
  /\ [](tasks["t1"].pc = "sleep" /\ tasks["t1"].aborted => ENABLED Wake("t1"))
  /\ [][tasks["t1"].aborted =>
          /\ ~(BeforeAccount("worker") /\ procs'["worker"].pc \notin {"first", "turn", "idle"})
          /\ ~(tasks["t1"].pc = "loop" /\ tasks'["t1"].pc \in {"sync", "reminders"})]_vars
  /\ (tasks["t1"].aborted ~> tasks["t1"].pc = "stopped")

(* The signal is aborted while the loop sleeps and its timer has not run out,
   after a pass that synced an account *)
C14_Witness ==
  /\ tasks["t1"].pc = "sleep"
  /\ tasks["t1"].aborted
  /\ clock < tasks["t1"].wakeAt
  /\ accounts[RacingAccount].lastSyncAt # NoTime

----------------------------------------------------------------------------
(* Claims about list() *)

(* The elements offset .. offset+limit-1 of the cached events (of the account,
   when one is given) that overlap [from, to] and are not declined, in every
   order that ascends in startAt *)
PagesOfFiltered(coll, accountId, from, to, limit, offset) ==
  LET kept == {d \in coll : /\ (accountId # NoAccount => d.accountId = accountId)
                            /\ (from # NoTime => d.endAt >= from)
                            /\ (to # NoTime => d.startAt <= to)
                            /\ d.responseStatus # "declined"}
  IN {Slice(s, offset, offset + limit) : s \in SortedByStartAt(kept)}

(* C15: list(accountId, from, to, limit, offset) returns exactly the elements
   offset .. offset+limit-1 of the sorted sequence of the cached events that are
   in range and not declined, however many cached events are out of range or
   declined. *)
C15_ListPagesTheFilteredEvents ==
  ret.op = "list" =>
    ret.result \in PagesOfFiltered(events, ret.accountId, ret.from, ret.to,
                                   ret.limit, ret.offset)

(* list() returns nothing although an event in range that is not declined is
   cached behind one that is filtered out *)
C15_PageCutBeforeFiltering ==
  /\ ret.op = "list"
  /\ ret.offset = 0
  /\ ret.result = << >>
  /\ << >> \notin PagesOfFiltered(events, ret.accountId, ret.from, ret.to,
                                   ret.limit, ret.offset)

----------------------------------------------------------------------------
(* Claims about account deletion *)

(* C17: after cal_accounts_delete or the deleteAccount action completes for an
   existing account A with no other operation in flight, the store holds no event
   with accountId A, no SyncState for A, no credential secret for A and no
   account document A, and the events and the cursors of every other account are
   unchanged. *)
C17_DeleteCascades ==
  [][\A id \in AccountIds, via \in {"tool", "action"} :
       (DeleteAccount(id, "none", via) /\ accounts[id] # NoAccountDoc)
       => /\ ret'.success
          /\ ~\E r \in events' : r.accountId = id
          /\ syncState'[id] = NoSyncState
          /\ secrets'[id] = NoSecret
          /\ accounts'[id] = NoAccountDoc
          /\ {r \in events' : r.accountId # id} = {r \in events : r.accountId # id}
          /\ \A b \in AccountIds \ {id} :
               /\ syncState'[b] = syncState[b]
               /\ accounts'[b] = accounts[b]
               /\ secrets'[b] = secrets[b]]_vars

(* An account that had cached events and a stored cursor was deleted while the
   other account keeps its events and its cursor *)
C17_Witness ==
  /\ ret.op = "deleteAccount" /\ ret.success /\ ret.existed
  /\ ret.hadEvents /\ ret.hadCursor
  /\ accounts[ret.id] = NoAccountDoc
  /\ secrets[ret.id] = NoSecret
  /\ ~\E r \in events : r.accountId = ret.id
  /\ \E b \in AccountIds \ {ret.id} :
       /\ syncState[b].present
       /\ \E r \in events : r.accountId = b

----------------------------------------------------------------------------
(* Claims about the write tools *)

(* What C18 requires of a write tool's call on an iCal-URL account *)
ReadOnlyRefusal ==
  /\ toolLog'.error = ReadOnlyError
  /\ ~toolLog'.requested
  /\ remote' = remote
  /\ tokenLog' = tokenLog
  /\ events' = events
  /\ toolLog'.created = toolLog.created

(* C18: cal_events_create, cal_events_update and cal_events_delete on an
   iCal-URL account return success: false carrying the read-only error, send no
   request to a server, make one attempt only, and leave the event cache
   unchanged. *)
C18_ICalWritesAreRefused ==
  /\ [][\A id \in AccountIds, input \in CreateInputs, slot \in RemoteItems :
          (CreateEvent(id, input, slot) /\ accounts[id].provider = "ical")
          => (ReadOnlyRefusal /\ toolLog'.op = "create")]_vars
  /\ [][\A op \in {"update", "delete"}, rowId \in 1..(MaxIds + 1), update \in UpdateInputs,
           hasUrl \in BOOLEAN :
          (/\ WriteEvent(op, rowId, update, hasUrl)
           /\ \E r \in events : r.id = rowId /\ accounts[r.accountId].provider = "ical")
          => (ReadOnlyRefusal /\ toolLog'.op = op)]_vars

(* The delete tool was called for a cached event of the iCal feed and refused,
   and the event is still cached *)
C18_Witness ==
  /\ toolLog.op = "delete"
  /\ toolLog.error = ReadOnlyError
  /\ ~toolLog.requested
  /\ \E r \in events : accounts[r.accountId].provider = "ical"
  /\ ~\E r \in events : accounts[r.accountId].provider # "ical"

----------------------------------------------------------------------------
(* Claims about the delivery of reminders *)

(* C19: for every non-declined event that stays in the cache and whose reminder
   instant R = start - reminderMinutes is still in the future when a reminder
   pass runs, the loop, if it is not cancelled and the sink accepts the
   delivery, delivers the reminder in a pass evaluated in [R, R + 5 minutes):
   once that window has closed the reminder has been delivered. *)
C19_DeliveredWithinGrace ==
  \A e \in events :
    LET R == e.startAt - settings.reminderMinutes IN
    (/\ tasks["t1"].pc \notin {"unused", "loop", "reminders"}
     /\ NotDeclined(e)
     /\ R > 0
     /\ clock >= R + ReminderGraceMinutes)
    => sink[ReminderKey(e)] >= 1

(* The window of a reminder set more than a day ahead has closed, the loop has
   run all the time, and the reminder was never delivered *)
C19_NeverDelivered ==
  \E e \in events :
    /\ NotDeclined(e)
    /\ settings.reminderMinutes > UpcomingWindowMinutes
    /\ tasks["t1"].pc = "sleep" /\ ~tasks["t1"].aborted
    /\ clock >= e.startAt - settings.reminderMinutes + ReminderGraceMinutes
    /\ sink[ReminderKey(e)] = 0

(* With the default lead time the reminder was delivered in its window *)
C19_DeliveredByDefault ==
  \A e \in events :
    (/\ settings.reminderMinutes = DefaultReminderMinutes
     /\ NotDeclined(e)
     /\ clock >= e.startAt - settings.reminderMinutes + ReminderGraceMinutes)
    => sink[ReminderKey(e)] = 1

----------------------------------------------------------------------------
(* Claims about the cache under callers that run at the same time *)

(* C20: when two sync passes for the same account interleave, or a sync pass
   interleaves with cal_events_create, the cache holds at most one row per
   (accountId, uid) in every reachable state. *)
C20_UniqueUnderInterleaving ==
  \A a \in AccountIds :
    \A u \in {r.uid : r \in events} :
      Cardinality({r \in events : r.accountId = a /\ r.uid = u}) <= 1

(* The worker's pass and the tool's pass have each looked the same uid up,
   found nothing and stored a row of their own *)
C20_TwoRowsForOneUid ==
  \E r1, r2 \in events :
    /\ r1.id # r2.id
    /\ r1.accountId = r2.accountId /\ r1.uid = r2.uid
    /\ <<"worker", r1.uid>> \in raceLog.puts
    /\ <<"tool", r1.uid>> \in raceLog.puts

----------------------------------------------------------------------------
(* Claims about what a sync stores *)

(* The rows list() (no filter, first hundred) and getUpcoming() can return *)
Listed ==
  UNION {{d[i] : i \in 1..Len(d)} : d \in List(events, NoAccount, NoTime, NoTime, 100, 0)}
  \cup UNION {{d[i] : i \in 1..Len(d)} :
               d \in GetUpcoming(events, clock, clock + UpcomingWindowMinutes)}

(* C21: syncAccountEvents stores the responseStatus of every event the provider
   returned unchanged in the cache row, so an event that a CalDAV or iCloud sync
   resolves as declined for the account's user is not returned by list() or
   getUpcoming() after the pass. *)
C21_DeclinedIsStoredAndHidden ==
  \A x \in syncRet.returned : \A it \in remote :
    (/\ syncRet.called /\ syncRet.stage = "none"
     /\ syncRet.provider \in {"caldav", "icloud"}
     /\ it.account = syncRet.account /\ it.id = x[1])
    => /\ \A r \in events :
            (r.accountId = syncRet.account /\ r.uid = x[2])
            => r.responseStatus = ResponseStatusOf(it.partstat)
       /\ it.partstat = "DECLINED"
            => ~\E r \in Listed : r.accountId = syncRet.account /\ r.uid = x[2]

(* A CalDAV pass has returned an event its user declined, and the row is stored
   without a responseStatus and listed *)
C21_DeclinedIsListed ==
  \E x \in syncRet.returned : \E it \in remote : \E r \in Listed :
    /\ syncRet.called /\ syncRet.stage = "none" /\ syncRet.provider = "caldav"
    /\ it.account = syncRet.account /\ it.id = x[1] /\ it.partstat = "DECLINED"
    /\ r.accountId = syncRet.account /\ r.uid = x[2]
    /\ r.responseStatus = "null"

----------------------------------------------------------------------------
(* An account being created or edited while a tool call refreshes its token *)

(* What the account form or the OAuth completion hands to upsert: the provider
   chosen ("undefined" when left out) and which secrets are filled in *)
AccountInputs ==
  [provider : {"undefined", "google", "caldav"},
   accessToken : BOOLEAN, refreshToken : BOOLEAN, password : BOOLEAN]

(* upsert: the credentials and the authType the input's secrets give *)
InputCredentials(input, now) ==
  IF input.accessToken /\ input.refreshToken THEN OAuth2Credentials(0, 0, now + 60)
  ELSE IF input.password THEN PasswordCredentials
  ELSE NoCredentials

(* input.password || input.accessToken *)
InputHasSecret(input) == input.password \/ input.accessToken

(* No upsert is running *)
NoUpsert ==
  [op |-> "upsert", pc |-> "idle", id |-> "", doc |-> NoAccountDoc,
   credentials |-> NoSecret, save |-> FALSE]

(* upsert up to its storage.put: existing = await this.get(id), then the
   document is built from the input and from what was loaded. An account that
   does not exist yet needs a provider *)
UpsertBegins(id, input) ==
  /\ ret.pc = "idle"
  /\ LET existing == accounts[id]
         credentials == InputCredentials(input, clock)
     IN IF existing # NoAccountDoc
        THEN ret' = [NoUpsert EXCEPT
                       !.pc = "put", !.id = id,
                       !.doc = [existing EXCEPT
                                  !.provider = IF input.provider # "undefined"
                                               THEN input.provider ELSE existing.provider,
                                  !.authType = IF InputHasSecret(input)
                                               THEN credentials.type
                                               ELSE existing.authType],
                       !.credentials = IF InputHasSecret(input) THEN credentials
                                       ELSE AccountOf(id).credentials,
                       !.save = InputHasSecret(input)]
        ELSE /\ input.provider # "undefined"
             /\ ret' = [NoUpsert EXCEPT
                          !.pc = "put", !.id = id,
                          !.doc = AccountDoc(input.provider, credentials.type),
                          !.credentials = credentials,
                          !.save = TRUE]
  /\ UNCHANGED <<events, clock, nextId, acctVars, syncVars, remVars, raceVars>>

(* await this.storage.put(COLLECTIONS.accounts, accountId, doc) *)
UpsertPutsDocument ==
  /\ ret.pc = "put"
  /\ accounts' = [accounts EXCEPT ![ret.id] = ret.doc]
  /\ ret' = IF ret.save THEN [ret EXCEPT !.pc = "save"] ELSE NoUpsert
  /\ UNCHANGED <<events, clock, nextId, secrets, config, tokenLog, credRet, syncVars,
                 remVars, raceVars>>

(* await this.saveCredentials(accountId, credentials) *)
UpsertSavesCredentials ==
  /\ ret.pc = "save"
  /\ secrets' = [secrets EXCEPT ![ret.id] = ret.credentials]
  /\ ret' = NoUpsert
  /\ UNCHANGED <<events, clock, nextId, accounts, config, tokenLog, credRet, syncVars,
                 remVars, raceVars>>

InitAuth ==
  /\ events = {}
  /\ clock = 0
  /\ nextId = 1
  /\ ret = NoUpsert
  /\ \E s \in {<<NoAccountDoc, NoSecret>>,
               <<AccountDoc("google", "oauth2"), OAuth2Credentials(0, 0, 5)>>,
               <<AccountDoc("caldav", "password"), PasswordCredentials>>} :
       /\ accounts = [a \in AccountIds |->
                        IF a = "a1" THEN AccountDoc("ical", "none") ELSE s[1]]
       /\ secrets = [a \in AccountIds |-> IF a = "a1" THEN NoCredentials ELSE s[2]]
  /\ config = FullConfig
  /\ tokenLog = << >>
  /\ credRet = NoCredRet
  /\ syncState = [a \in AccountIds |-> NoSyncState]
  /\ remote = {}
  /\ pass = NoPass
  /\ syncRet = NoSyncRet
  /\ toolLog = NoToolLog
  /\ tasks = [t \in TaskIds |-> NoTask]
  /\ workerDisposables = NoWorker
  /\ sink = [k \in ReminderKeys |-> 0]
  /\ remRet = NoRemRet
  /\ settings = [reminderMinutes |-> DefaultReminderMinutes]
  /\ chat = TRUE
  /\ procs = [p \in Callers |-> NoProc]
  /\ raceLog = NoRaceLog

NextAuth ==
  \/ \E input \in AccountInputs : UpsertBegins(RacingAccount, input)
  \/ UpsertPutsDocument
  \/ UpsertSavesCredentials
  \/ CreateBegins("create")
  \/ EnsureFreshBegins("create")
  \/ \E resp \in RaceTokenResponses : GrantReturns("create", resp)
  \/ SaveCredentials("create")
  \/ \E input \in CreateInputs, slot \in RemoteItems : CreateRemote("create", input, slot)
  \/ UpsertFind("create")
  \/ UpsertPut("create")

SpecAuth == InitAuth /\ [][NextAuth]_vars

----------------------------------------------------------------------------
(* Claims about the credentials of an account *)

(* No upsert and no tool call is between two of its awaits *)
AtRest == ret.pc = "idle" /\ \A p \in Callers : procs[p].pc \in {"idle", "done"}

(* C22: for every stored account the type tag of the credential payload loaded
   for it equals the account's authType, after any sequence and any interleaving
   of account creation, account edit, OAuth completion and credential refresh
   (updateCredentials); stated here for the states in which every call has
   returned. *)
C22_TagMatchesAuthType ==
  AtRest =>
    \A a \in AccountIds :
      accounts[a] # NoAccountDoc
      => LoadCredentials(secrets[a], accounts[a].authType).type = accounts[a].authType

(* The account was edited to a password while a tool call was waiting for its
   refresh grant; the call then saved the new tokens, and every call has returned *)
C22_OAuthPayloadUnderPasswordAccount ==
  /\ AtRest
  /\ accounts[RacingAccount].authType = "password"
  /\ secrets[RacingAccount].type = "oauth2"
  /\ procs["create"].pc = "done"

----------------------------------------------------------------------------
(* A Google account with two calendars *)

Calendars == <<"c1", "c2">>

CalendarIds == {Calendars[i] : i \in 1..Len(Calendars)}

(* The items of the account's calendars on the server.  r1 and r2 are two
   occurrences of one recurring event: with singleEvents=true the server lists
   each occurrence as an item of its own, and all carry the iCalUID of the series *)
CalendarItems ==
  {[account |-> "a1", calendar |-> "c1", id |-> "r1", iCalUID |-> "u1", title |-> "t1",
    startAt |-> 0, status |-> "confirmed", partstat |-> ""],
   [account |-> "a1", calendar |-> "c1", id |-> "r2", iCalUID |-> "u1", title |-> "t1",
    startAt |-> 1, status |-> "confirmed", partstat |-> ""],
   [account |-> "a1", calendar |-> "c2", id |-> "r3", iCalUID |-> "u3", title |-> "t1",
    startAt |-> 0, status |-> "confirmed", partstat |-> ""]}

CalendarItemIds == <<"r1", "r2", "r3">>

RECURSIVE ItemsInOrder(_, _, _)
(* data.items: the items of S in the order the server lists them *)
ItemsInOrder(S, ids, i) ==
  IF i > Len(ids) THEN << >>
  ELSE (IF \E it \in S : it.id = ids[i]
        THEN <<CHOOSE it \in S : it.id = ids[i]>> ELSE << >>) \o ItemsInOrder(S, ids, i + 1)

(* The nextSyncToken the server hands out for a calendar *)
NextSyncTokenOf(cal) == IF cal = "c1" THEN "s1" ELSE "s2"

(* What the server answers to the events request of one calendar: an error, or
   a page with or without a nextSyncToken *)
CalendarAnswers == {"error", "page", "pageWithToken"}

(* url = syncToken ? ...?syncToken=... : ...?timeMin=...&timeMax=... *)
RequestKind(syncToken) == IF syncToken # "null" THEN "syncToken" ELSE "timeRange"

NoCalendarsResult ==
  [threw |-> FALSE, events |-> << >>, sources |-> << >>, deletedUids |-> << >>,
   syncToken |-> "null", deltaLink |-> "null", requests |-> << >>, skipped |-> {}]

RECURSIVE GoogleSyncCalendars(_, _, _, _, _, _)
(* GoogleCalendarProvider.syncEvents, for (const cal of calendars): one events
   request per calendar, all with the syncToken of the call when there is one;
   a request that fails is skipped (catch { continue }), a page's nextSyncToken
   replaces newSyncToken.  delta: the items a request with a syncToken lists *)
GoogleSyncCalendars(i, syncToken, items, answers, delta, acc) ==
  IF i > Len(Calendars) THEN acc
  ELSE LET cal == Calendars[i]
           request == [calendar |-> cal, kind |-> RequestKind(syncToken),
                       syncToken |-> syncToken]
           listed == IF syncToken # "null" THEN {it \in delta : it.calendar = cal}
                     ELSE {it \in items : it.calendar = cal /\ it.status = "confirmed"}
           all == ItemsInOrder(listed, CalendarItemIds, 1)
           live == SelectSeq(all, LAMBDA it : it.status # "cancelled")
           dead == SelectSeq(all, LAMBDA it : it.status = "cancelled")
       IN GoogleSyncCalendars(i + 1, syncToken, items, answers, delta,
            IF answers[cal] = "error"
            THEN [acc EXCEPT !.requests = Append(@, request), !.skipped = @ \cup {cal}]
            ELSE [acc EXCEPT
                    !.requests = Append(@, request),
                    !.events = @ \o [k \in 1..Len(live) |->
                                       SyncedEvent(GoogleSyncUid(live[k]), live[k].title,
                                                   live[k].startAt)],
                    !.sources = @ \o [k \in 1..Len(live) |-> live[k].id],
                    !.deletedUids = @ \o [k \in 1..Len(dead) |-> GoogleSyncUid(dead[k])],
                    !.syncToken = IF answers[cal] = "pageWithToken"
                                  THEN NextSyncTokenOf(cal) ELSE @])

(* What is remembered of the account's last pass, and of the one before it *)
NoCalendarPass ==
  [op |-> "none", hadToken |-> FALSE, requests |-> << >>, skipped |-> {}, answered |-> {},
   returned |-> {}, items |-> 0, rowsBefore |-> 0, fullSync |-> FALSE,
   prevHadToken |-> FALSE, prevSkipped |-> {}]

(* syncAccountEvents for the Google account: the credentials are fresh, the
   stored syncToken is read, the calendars are fetched, the events upserted, the
   tombstones removed, the cursor and the status written *)
GoogleAccountPass(answers, delta) ==
  /\ accounts["a1"].provider = "google"
  /\ LET account == AccountOf("a1")
         cred == EnsureFreshResult(account, config, clock,
                                   [ok |-> FALSE, rotates |-> FALSE, expiresIn |-> 0], 0)
         syncToken == syncState["a1"].syncToken
         sr == GoogleSyncCalendars(1, syncToken, remote, answers,
                                   IF syncToken # "null" THEN delta ELSE {},
                                   NoCalendarsResult)
         up == UpsertEach(events, nextId, "a1", SyncUpsertInputs(sr.events), clock, 0)
         del == DeleteEach(up.events, "a1", sr.deletedUids, FALSE)
     IN /\ cred.outcome = "unchanged"
        /\ syncToken = "null" => delta = {}
        /\ up.nextId <= MaxIds + 1
        /\ events' = del.events
        /\ nextId' = up.nextId
        /\ syncState' = [syncState EXCEPT !["a1"] = SyncStateDoc(sr.syncToken, sr.deltaLink)]
        /\ accounts' = UpdateSyncStatus(accounts, "a1", "null", clock)
        /\ syncRet' = [op |-> "googlePass",
                       hadToken |-> syncToken # "null",
                       requests |-> sr.requests,
                       skipped |-> sr.skipped,
                       answered |-> {it.id : it \in
                                       {x \in (IF syncToken # "null" THEN delta ELSE remote) :
                                          x.calendar \notin sr.skipped}},
                       returned |-> {<<sr.sources[k], sr.events[k].uid>> :
                                       k \in 1..Len(sr.events)},
                       items |-> Len(sr.events),
                       rowsBefore |-> Cardinality(events),
                       fullSync |-> syncToken = "null",
                       prevHadToken |-> syncRet.hadToken,
                       prevSkipped |-> syncRet.skipped]
  /\ UNCHANGED <<clock, ret, secrets, config, tokenLog, credRet, remote, pass, toolLog,
                 remVars, raceVars>>

InitCal ==
  /\ events = {}
  /\ clock = 0
  /\ nextId = 1
  /\ ret = NoRet
  /\ accounts = [a \in AccountIds |->
                   IF a = "a1" THEN AccountDoc("google", "oauth2") ELSE NoAccountDoc]
  /\ secrets = [a \in AccountIds |->
                  IF a = "a1" THEN OAuth2Credentials(0, 0, 10) ELSE NoSecret]
  /\ config = FullConfig
  /\ tokenLog = << >>
  /\ credRet = NoCredRet
  /\ syncState \in {[a \in AccountIds |-> NoSyncState],
                    [a \in AccountIds |->
                       IF a = "a1" THEN SyncStateDoc("s1", "null") ELSE NoSyncState]}
  /\ remote \in SUBSET CalendarItems
  /\ pass = NoPass
  /\ syncRet = NoCalendarPass
  /\ toolLog = NoToolLog
  /\ tasks = [t \in TaskIds |-> NoTask]
  /\ workerDisposables = NoWorker
  /\ sink = [k \in ReminderKeys |-> 0]
  /\ remRet = NoRemRet
  /\ settings = [reminderMinutes |-> DefaultReminderMinutes]
  /\ chat = TRUE
  /\ procs = [p \in Callers |-> NoProc]
  /\ raceLog = NoRaceLog

NextCal ==
  \E answers \in [CalendarIds -> CalendarAnswers], delta \in SUBSET remote :
    GoogleAccountPass(answers, delta)

SpecCal == InitCal /\ [][NextCal]_vars

----------------------------------------------------------------------------
(* Claims about an account with several calendars *)

(* C23: if in a Google pass with a stored sync token the fetch of some calendar
   fails, that calendar is skipped without failing the pass and the events of
   the other calendars are still returned, and the next pass of the account
   fetches the skipped calendar with a full time-ranged request (no sync token),
   whatever the outcome of the other calendars was. *)
C23_SkippedCalendarIsRefetchedInFull ==
  /\ (syncRet.op = "googlePass" /\ syncRet.hadToken /\ syncRet.skipped # {})
     => /\ accounts["a1"].lastError = "null"
        /\ \A id \in syncRet.answered : \E x \in syncRet.returned : x[1] = id
  /\ (syncRet.op = "googlePass" /\ syncRet.prevHadToken)
     => \A k \in 1..Len(syncRet.requests) :
          syncRet.requests[k].calendar \in syncRet.prevSkipped
          => syncRet.requests[k].kind = "timeRange"

(* The pass before skipped calendar c1 while c2 answered with a nextSyncToken,
   and this pass has asked for c1 with that token *)
C23_SkippedCalendarAskedWithToken ==
  /\ syncRet.op = "googlePass" /\ syncRet.prevHadToken
  /\ "c1" \in syncRet.prevSkipped
  /\ \E k \in 1..Len(syncRet.requests) :
       /\ syncRet.requests[k].calendar = "c1"
       /\ syncRet.requests[k].kind = "syncToken"
       /\ syncRet.requests[k].syncToken = NextSyncTokenOf("c2")

(* C24: within one sync result of any provider, distinct remote items and
   distinct occurrences of a recurring event carry distinct uids, so a full sync
   that returns n non-cancelled items into an empty cache produces n rows for
   the account and no occurrence overwrites another. *)
C24_DistinctItemsDistinctUids ==
  syncRet.op = "googlePass"
  => /\ \A x, y \in syncRet.returned : x[1] # y[1] => x[2] # y[2]
     /\ (syncRet.fullSync /\ syncRet.rowsBefore = 0)
        => Cardinality({r \in events : r.accountId = "a1"}) = syncRet.items

(* A full sync into an empty cache has returned both occurrences of the
   recurring event under the uid of the series, and one row is cached for them *)
C24_OccurrenceOverwritten ==
  /\ syncRet.op = "googlePass" /\ syncRet.fullSync /\ syncRet.rowsBefore = 0
  /\ <<"r1", "u1">> \in syncRet.returned /\ <<"r2", "u1">> \in syncRet.returned
  /\ Cardinality({r \in events : r.accountId = "a1" /\ r.uid = "u1"}) = 1
  /\ \A r \in events : r.uid = "u1" => r.startAt = 1

----------------------------------------------------------------------------
(* An Outlook account whose SyncState earlier passes have written *)

MaxPages == 2          \* pages the Graph server splits a calendar view into

(* The SyncState documents a pass can find: none, one with the deltaLink an
   earlier Outlook pass captured, and ones with a syncToken written while the
   account had another provider *)
StoredSyncStates ==
  {NoSyncState, SyncStateDoc("null", "null"), SyncStateDoc("null", "d1"),
   SyncStateDoc("s1", "null"), SyncStateDoc("s1", "d1")}

(* (OutlookInitialUrlFromToken: the request resumes from the stored token) *)
OutlookInitialUrlFromToken(syncToken) ==
  IF syncToken # "null" THEN syncToken ELSE "calendarview"

(* let url = `/me/calendarview?startDateTime=...&endDateTime=...&$top=500`: the
   _syncToken parameter is not read *)
OutlookInitialUrl(syncToken) == "calendarview"

(* while (url): the first request, then one for every @odata.nextLink *)
OutlookRequests(syncToken, pages) ==
  <<OutlookInitialUrl(syncToken)>> \o [i \in 1..(pages - 1) |-> "nextLink"]

(* What a pass does with the SyncState it finds: the requests it sends, what
   syncEvents returns (fullSync: true) and the cursor it stores *)
OutlookPassResult(stored, credentials, items, fetch, pages) ==
  LET sr == OutlookSyncEvents(credentials, items, fetch)
  IN [threw |-> sr.threw,
      requests |-> OutlookRequests(stored.syncToken, IF sr.threw THEN 1 ELSE pages),
      events |-> sr.events,
      fullSync |-> ~sr.threw,
      cursor |-> IF sr.threw THEN stored ELSE SyncStateDoc(sr.syncToken, sr.deltaLink)]

NoOutlookPass ==
  [op |-> "none", stored |-> NoSyncState, fetch |-> [outcome |-> "ok", delta |-> {}],
   pages |-> 1, threw |-> FALSE, requests |-> << >>, events |-> << >>, fullSync |-> FALSE]

(* syncAccountEvents for the Outlook account: the stored SyncState is read and
   its syncToken handed to syncEvents, the events are upserted, the cursor and
   the status written; a failed fetch is written as the account's lastError *)
OutlookAccountPass(fetch, pages) ==
  /\ accounts["a1"].provider = "outlook"
  /\ LET account == AccountOf("a1")
         cred == EnsureFreshResult(account, config, clock,
                                   [ok |-> FALSE, rotates |-> FALSE, expiresIn |-> 0], 0)
         stored == syncState["a1"]
         r == OutlookPassResult(stored, cred.credentials,
                                {it \in remote : it.account = "a1"}, fetch, pages)
         up == UpsertEach(events, nextId, "a1", SyncUpsertInputs(r.events), clock, 0)
     IN /\ cred.outcome = "unchanged"
        /\ up.nextId <= MaxIds + 1
        /\ events' = up.events
        /\ nextId' = up.nextId
        /\ syncState' = [syncState EXCEPT !["a1"] = r.cursor]
        /\ accounts' = UpdateSyncStatus(accounts, "a1",
                                        IF r.threw THEN ErrorMessage("fetch") ELSE "null",
                                        clock)
        /\ syncRet' = [op |-> "outlookPass", stored |-> stored, fetch |-> fetch,
                       pages |-> pages, threw |-> r.threw, requests |-> r.requests,
                       events |-> r.events, fullSync |-> r.fullSync]
  /\ UNCHANGED <<clock, ret, secrets, config, tokenLog, credRet, remote, pass, toolLog,
                 remVars, raceVars>>

InitOutlook ==
  /\ events = {}
  /\ clock = 0
  /\ nextId = 1
  /\ ret = NoRet
  /\ accounts = [a \in AccountIds |->
                   IF a = "a1" THEN AccountDoc("outlook", "oauth2") ELSE NoAccountDoc]
  /\ secrets = [a \in AccountIds |->
                  IF a = "a1" THEN OAuth2Credentials(0, 0, 10) ELSE NoSecret]
  /\ config = FullConfig
  /\ tokenLog = << >>
  /\ credRet = NoCredRet
  /\ \E stored \in StoredSyncStates :
       syncState = [a \in AccountIds |-> IF a = "a1" THEN stored ELSE NoSyncState]
  /\ remote = {}
  /\ pass = NoPass
  /\ syncRet = NoOutlookPass
  /\ toolLog = NoToolLog
  /\ tasks = [t \in TaskIds |-> NoTask]
  /\ workerDisposables = NoWorker
  /\ sink = [k \in ReminderKeys |-> 0]
  /\ remRet = NoRemRet
  /\ settings = [reminderMinutes |-> DefaultReminderMinutes]
  /\ chat = TRUE
  /\ procs = [p \in Callers |-> NoProc]
  /\ raceLog = NoRaceLog

NextOutlook ==
  \/ \E item \in RemoteItems : RemoteAdd(item)
  \/ \E id \in {"r1", "r3"} : RemoteCancel(id)
  \/ \E fetch \in Fetches(AccountOf("a1"), "null"), pages \in 1..MaxPages :
       OutlookAccountPass(fetch, pages)

SpecOutlook == InitOutlook /\ [][NextOutlook]_vars

----------------------------------------------------------------------------
(* Claims about the Outlook cursor *)

(* C25: for an Outlook account, the requests a sync pass issues and the events
   it returns do not depend on the deltaLink or syncToken stored by earlier
   passes: the pass that found the stored SyncState has issued the requests and
   returned the events that a pass finding any other SyncState issues and returns
   against the same server, with fullSync = true; and the captured deltaLink is
   stored but never supplied to a fetch. *)
C25_PassIgnoresStoredSyncState ==
  syncRet.op = "outlookPass"
  => /\ \A other \in StoredSyncStates :
          LET r == OutlookPassResult(other, AccountOf("a1").credentials,
                                     {it \in remote : it.account = "a1"},
                                     syncRet.fetch, syncRet.pages)
          IN /\ r.requests = syncRet.requests
             /\ r.events = syncRet.events
             /\ r.fullSync = syncRet.fullSync
     /\ ~syncRet.threw => syncRet.fullSync
     /\ \A k \in 1..Len(syncRet.requests) :
          syncRet.requests[k] \in {"calendarview", "nextLink"}
     /\ (~syncRet.threw /\ syncRet.fetch.outcome = "okDeltaLink")
        => syncState["a1"].deltaLink = "d1"

(* A pass that found a stored deltaLink and syncToken has gone through two
   pages of a calendar view that holds an event *)
C25_Witness ==
  /\ syncRet.op = "outlookPass" /\ ~syncRet.threw
  /\ syncRet.stored = SyncStateDoc("s1", "d1")
  /\ Len(syncRet.requests) = 2
  /\ Len(syncRet.events) = 1
  /\ syncState["a1"].deltaLink = "d1"

----------------------------------------------------------------------------
(* The reminder loop of a user whose cache has kept the events of past syncs *)

(* n events that ended long ago, an hour long each; nothing removes a row from
   the cache when its event is over *)
PastRows(n) ==
  {[id |-> 10 + k, accountId |-> "a1", uid |-> "p" \o ToString(k), title |-> "t1",
    startAt |-> (0 - 100) - 100 * k, endAt |-> (0 - 40) - 100 * k,
    responseStatus |-> "null", createdAt |-> 0, updatedAt |-> 0] : k \in 1..n}

InitScan ==
  /\ \E n \in {0, UpcomingLimit} : events = ReminderCache \cup PastRows(n)
  /\ clock = 0
  /\ nextId = 3
  /\ ret = NoRet
  /\ accounts = [a \in AccountIds |->
                   IF a = "a1" THEN DisabledDoc("caldav", "password") ELSE NoAccountDoc]
  /\ secrets = [a \in AccountIds |-> IF a = "a1" THEN PasswordCredentials ELSE NoSecret]
  /\ config = FullConfig
  /\ tokenLog = << >>
  /\ credRet = NoCredRet
  /\ syncState = [a \in AccountIds |-> NoSyncState]
  /\ remote = {}
  /\ pass = NoPass
  /\ syncRet = NoSyncRet
  /\ toolLog = NoToolLog
  /\ tasks = [t \in TaskIds |-> NoTask]
  /\ workerDisposables = NoWorker
  /\ sink = [k \in ReminderKeys |-> 0]
  /\ remRet = NoRemRet
  /\ settings = [reminderMinutes |-> DefaultReminderMinutes]
  /\ chat = TRUE
  /\ procs = [p \in Callers |-> NoProc]
  /\ raceLog = NoRaceLog

NextScan ==
  \/ StartWorkerForUser("t1")
  \/ RegisterWorker("t1")
  \/ WorkerSyncPhase("t1")
  \/ ReminderPhaseStart("t1")
  \/ \E accepts \in BOOLEAN : RemindNext("t1", accepts)
  \/ ReminderPhaseEnd("t1")
  \/ Wake("t1")
  \/ Advance

SpecScan == InitScan /\ [][NextScan]_vars

----------------------------------------------------------------------------
(* Claims about what a reminder pass looks at *)

(* C26: the set of events a reminder pass examines at time now is exactly the
   set of cached non-declined events whose start lies in [now, now+24h), however
   many other events (older, later, already started) the cache holds. *)
C26_PassExaminesTheUpcomingEvents ==
  [][\A t \in TaskIds :
       (ReminderPhaseStart(t) /\ ~tasks[t].aborted)
       => {tasks'[t].queue[i] : i \in 1..Len(tasks'[t].queue)}
          = {e \in events : /\ NotDeclined(e)
                            /\ e.startAt >= clock
                            /\ e.startAt < clock + UpcomingWindowMinutes}]_vars

(* The loop has run through a pass that examined nothing, at a minute at which
   the reminder of a cached event was due, and sleeps: the events that sort
   first took every place of getUpcoming's query *)
C26_DueEventNotExamined ==
  /\ tasks["t1"].pc = "sleep" /\ tasks["t1"].now = clock
  /\ ~remRet.valid
  /\ \E e \in events :
       /\ NotDeclined(e)
       /\ e.startAt >= clock /\ e.startAt < clock + UpcomingWindowMinutes
       /\ InGraceWindow(e.startAt - settings.reminderMinutes, clock)

----------------------------------------------------------------------------
(* The wait after a reminder phase, in milliseconds *)

MsPerMinute == 60000
SleepFloorMs == 1000         \* Math.max(nextReminderMs, 1000)
MaxScan == 2                 \* events a scan of the model holds

PollIntervalMs == PollIntervalMinutes * MsPerMinute
ReminderGraceMs == ReminderGraceMinutes * MsPerMinute
InfinityMs == 10 * Infinity      \* let earliestFuture = Infinity: above every delta here

(* reminderMs - nowMs of a scanned event: outside the grace window, due now,
   and ahead by a millisecond, a second, the poll interval and more *)
ReminderOffsets == {0 - ReminderGraceMs, 0, 1, SleepFloorMs, PollIntervalMs, PollIntervalMs + 1}

(* The events of one scan: how far ahead the reminder of each is, and whether
   its key is in firedReminders *)
Scans ==
  UNION {[1..n -> [reminderIn : ReminderOffsets, fired : BOOLEAN]] : n \in 0..MaxScan}

RECURSIVE EarliestFuture(_, _)
(* for (const event of events): a fired key is passed over, a reminder in the
   grace window is delivered, a later one lowers earliestFuture *)
EarliestFuture(scan, earliestFuture) ==
  IF scan = << >> THEN earliestFuture
  ELSE LET e == Head(scan) IN
       IF e.fired THEN EarliestFuture(Tail(scan), earliestFuture)
       ELSE IF e.reminderIn <= 0 /\ e.reminderIn > 0 - ReminderGraceMs
       THEN EarliestFuture(Tail(scan), earliestFuture)
       ELSE IF e.reminderIn > 0
       THEN EarliestFuture(Tail(scan), Min(earliestFuture, e.reminderIn))
       ELSE EarliestFuture(Tail(scan), earliestFuture)

(* let nextReminderMs = POLL_INTERVAL_MS, replaced after the loop unless the
   phase threw before it (settings.get or getUpcoming rejected) *)
NextReminderMs(scan, failed) ==
  LET earliestFuture == EarliestFuture(scan, InfinityMs) IN
  IF ~failed /\ earliestFuture < InfinityMs THEN Min(earliestFuture, PollIntervalMs)
  ELSE PollIntervalMs

(* (SleepMsUnfloored: the floor of one second left out) *)
SleepMsUnfloored(nextReminderMs) == nextReminderMs

(* const sleepMs = Math.max(nextReminderMs, 1000) *)
SleepMs(nextReminderMs) == IF nextReminderMs >= SleepFloorMs THEN nextReminderMs ELSE SleepFloorMs

(* One reminder phase over a scan, and the timer it sets; one phase is looked at *)
ComputeSleep(scan, failed) ==
  /\ ret = NoRet
  /\ ret' = [op |-> "sleep", scan |-> scan, failed |-> failed,
             sleepMs |-> SleepMs(NextReminderMs(scan, failed))]
  /\ UNCHANGED <<events, clock, nextId, acctVars, syncVars, remVars, raceVars>>

InitSleep ==
  /\ events = {}
  /\ clock = 0
  /\ nextId = 1
  /\ ret = NoRet
  /\ accounts = [a \in AccountIds |-> NoAccountDoc]
  /\ secrets = [a \in AccountIds |-> NoSecret]
  /\ config = FullConfig
  /\ tokenLog = << >>
  /\ credRet = NoCredRet
  /\ syncState = [a \in AccountIds |-> NoSyncState]
  /\ remote = {}
  /\ pass = NoPass
  /\ syncRet = NoSyncRet
  /\ toolLog = NoToolLog
  /\ tasks = [t \in TaskIds |-> NoTask]
  /\ workerDisposables = NoWorker
  /\ sink = [k \in ReminderKeys |-> 0]
  /\ remRet = NoRemRet
  /\ settings = [reminderMinutes |-> DefaultReminderMinutes]
  /\ chat = TRUE
  /\ procs = [p \in Callers |-> NoProc]
  /\ raceLog = NoRaceLog

NextSleep == \E scan \in Scans, failed \in BOOLEAN : ComputeSleep(scan, failed)

SpecSleep == InitSleep /\ [][NextSleep]_vars

----------------------------------------------------------------------------
(* Claims about the wait *)

(* reminderInstant - now of the scanned, not yet fired events whose reminder
   instant is in the future *)
FutureDeltas(scan) ==
  {scan[i].reminderIn : i \in {j \in 1..Len(scan) : ~scan[j].fired /\ scan[j].reminderIn > 0}}

(* C27: the sleep after each reminder phase lasts max(1 s, min(d, 10 min)),
   where d is the smallest (reminderInstant - now) over the scanned, not yet
   fired events whose reminderInstant is in the future; it lasts 10 minutes when
   there is no such event or when the reminder phase failed.  Every sleep is
   therefore between 1 second and 10 minutes. *)
C27_SleepIsClampedEarliestReminder ==
  ret.op = "sleep"
  => LET future == FutureDeltas(ret.scan)
         d == CHOOSE x \in future : \A y \in future : x <= y
     IN /\ (ret.failed \/ future = {}) => ret.sleepMs = 10 * 60 * 1000
        /\ (~ret.failed /\ future # {})
           => \/ (d <= 1000 /\ ret.sleepMs = 1000)
              \/ (d >= 1000 /\ d <= 10 * 60 * 1000 /\ ret.sleepMs = d)
              \/ (d >= 10 * 60 * 1000 /\ ret.sleepMs = 10 * 60 * 1000)
        /\ ret.sleepMs >= 1000 /\ ret.sleepMs <= 10 * 60 * 1000

(* A phase that did not fail has scanned a fired event with a reminder a
   millisecond ahead and an unfired one that far ahead too: the floor decides *)
C27_Witness ==
  /\ ret.op = "sleep" /\ ~ret.failed
  /\ Len(ret.scan) = 2
  /\ ret.scan[1].fired /\ ret.scan[1].reminderIn = 1
  /\ ~ret.scan[2].fired /\ ret.scan[2].reminderIn = 1
  /\ ret.sleepMs = 1000

----------------------------------------------------------------------------
(* Claims about a delivery that fails *)

(* C28: if delivering a reminder fails, the remaining events of the same pass
   are still processed, the failed (uid, startAt) is not retried within that
   pass and is not marked as fired, and a later pass delivers it if and only if
   its reminder instant is then still within the 5-minute grace window (the
   later delivery is the attempt of that pass, which succeeds when the chat
   accepts it). *)
C28_FailedDeliveryIsLeftToLaterPasses ==
  [][\A t \in TaskIds, accepts \in BOOLEAN :
       RemindNext(t, accepts)
       => LET event == Head(tasks[t].queue)
              key == ReminderKey(event)
              instant == event.startAt - settings.reminderMinutes
              inGrace == instant <= tasks[t].now /\ instant > tasks[t].now - 5
          IN /\ ~accepts
                => /\ key \in remRet'.warned
                   /\ tasks'[t].pc = "scan"
                   /\ tasks'[t].queue = Tail(tasks[t].queue)
                   /\ \A i \in 1..Len(tasks'[t].queue) :
                        ReminderKey(tasks'[t].queue[i]) # key
                   /\ key \notin tasks'[t].fired
                   /\ sink' = sink
             /\ (key \in remRet.warned /\ key \notin tasks[t].fired)
                => /\ remRet'.attempted <=> inGrace
                   /\ remRet'.delivered <=> (inGrace /\ accepts)
                   /\ sink'[key] = sink[key] + (IF inGrace /\ accepts THEN 1 ELSE 0)]_vars

(* The delivery of u1's reminder failed in the pass of minute 1; the pass went on
   to the second event, and the pass of minute 2, still inside u1's grace
   window, has delivered u1 and then u2 *)
C28_Witness ==
  /\ remRet.valid /\ remRet.uid = "u2" /\ remRet.delivered /\ remRet.now = 2
  /\ remRet.warned = {<<"u1", 16>>}
  /\ <<"u1", 16>> \in tasks["t1"].fired
  /\ sink[<<"u1", 16>>] = 1
  /\ sink[<<"u2", 17>>] = 1

----------------------------------------------------------------------------
(* The loop started again after a time in which none was running *)

(* How long before the restart (minute 0) the reminder instants of the cached
   events lie *)
GapMinutes == {0, 1, ReminderGraceMinutes - 1, ReminderGraceMinutes, ReminderGraceMinutes + 1}

(* One cached event per instant, with the default lead time *)
RestartRows ==
  {[id |-> 1 + g, accountId |-> "a1", uid |-> "u1", title |-> "t1",
    startAt |-> DefaultReminderMinutes - g, endAt |-> DefaultReminderMinutes - g + 30,
    responseStatus |-> "null", createdAt |-> 0, updatedAt |-> 0] : g \in GapMinutes}
  \cup {[id |-> 9, accountId |-> "a1", uid |-> "u2", title |-> "t2",
         startAt |-> DefaultReminderMinutes + 2, endAt |-> DefaultReminderMinutes + 32,
         responseStatus |-> "null", createdAt |-> 0, updatedAt |-> 0]}

(* No loop is running and nothing was delivered while none ran; the process
   comes up again at minute 0 with an empty firedReminders *)
InitRestart ==
  /\ events \in {S \in SUBSET RestartRows : Cardinality(S) \in 1..2}
  /\ sink = [k \in {ReminderKey(e) : e \in RestartRows} |-> 0]
  /\ settings = [reminderMinutes |-> DefaultReminderMinutes]
  /\ clock = 0
  /\ nextId = 10
  /\ ret = NoRet
  /\ accounts = [a \in AccountIds |->
                   IF a = "a1" THEN DisabledDoc("caldav", "password") ELSE NoAccountDoc]
  /\ secrets = [a \in AccountIds |-> IF a = "a1" THEN PasswordCredentials ELSE NoSecret]
  /\ config = FullConfig
  /\ tokenLog = << >>
  /\ credRet = NoCredRet
  /\ syncState = [a \in AccountIds |-> NoSyncState]
  /\ remote = {}
  /\ pass = NoPass
  /\ syncRet = NoSyncRet
  /\ toolLog = NoToolLog
  /\ tasks = [t \in TaskIds |-> NoTask]
  /\ workerDisposables = NoWorker
  /\ remRet = NoRemRet
  /\ chat = TRUE
  /\ procs = [p \in Callers |-> NoProc]
  /\ raceLog = NoRaceLog

NextRestart ==
  \/ StartWorkerForUser("t1")
  \/ RegisterWorker("t1")
  \/ WorkerSyncPhase("t1")
  \/ ReminderPhaseStart("t1")
  \/ \E accepts \in BOOLEAN : RemindNext("t1", accepts)
  \/ ReminderPhaseEnd("t1")
  \/ Wake("t1")
  \/ AdvanceAsleep("t1")

SpecRestart == InitRestart /\ [][NextRestart]_vars

----------------------------------------------------------------------------
(* Claims about a restart *)

(* The restarted loop has gone through a reminder pass and sleeps *)
PassedAfterRestart == tasks["t1"].pc = "sleep"

(* C29 as stated: after the worker loop restarts, any reminder whose instant
   passed during the gap in which no loop was running, and which had not been
   delivered before, is delivered by a reminder pass after the restart. *)
C29_AsStated ==
  \A e \in events :
    (/\ PassedAfterRestart
     /\ e.startAt - settings.reminderMinutes <= 0
     /\ ReminderKey(e) \notin remRet.warned)
    => sink[ReminderKey(e)] >= 1

(* C29: after the worker loop restarts, a reminder whose instant passed during
   the gap and which had not been delivered before is delivered by the first
   reminder pass after the restart if that pass begins less than 5 minutes after
   the instant and the delivery does not fail; a reminder whose instant lies 5
   minutes or more before that pass is delivered by no pass. *)
C29_RecoveredWithinGrace ==
  \A e \in events :
    LET instant == e.startAt - settings.reminderMinutes
        key == ReminderKey(e)
    IN /\ (PassedAfterRestart /\ instant <= 0 /\ instant > 0 - 5 /\ key \notin remRet.warned)
          => sink[key] = 1
       /\ instant <= 0 - 5 => sink[key] = 0

(* The first pass after the restart has delivered a reminder four minutes old
   and left one five minutes old undelivered *)
C29_Witness ==
  /\ PassedAfterRestart
  /\ \E e1, e2 \in events :
       /\ e1.startAt - settings.reminderMinutes = 0 - 4
       /\ sink[ReminderKey(e1)] = 1
       /\ e2.startAt - settings.reminderMinutes = 0 - 5
       /\ sink[ReminderKey(e2)] = 0

----------------------------------------------------------------------------
(* Claims about cancellation during a reminder pass *)

(* C30: cancellation is checked inside the reminder phase's iteration over
   events: once the abort signal is raised while a reminder pass is running, no
   reminder delivery is started for the events of that pass that have not been
   handled yet. *)
C30_NoDeliveryStartsAfterAbort ==
  (remRet.valid /\ remRet.aborted) => ~remRet.attempted

(* The signal of the loop was aborted when the iteration reached the event, and
   the reminder was delivered all the same *)
C30_DeliveredAfterAbort ==
  /\ remRet.valid /\ remRet.aborted /\ remRet.delivered
  /\ tasks[remRet.task].aborted
  /\ sink[<<remRet.uid, remRet.startAt>>] >= 1

----------------------------------------------------------------------------
(* The worker loop with phases that throw *)

(* What ctx.log.warn has been given by the two catch blocks of the loop *)
NoLoopLog == [op |-> "loop", doc |-> NoDoc, warned |-> {}]

(* The statement reached after the sync phase, whether its try block completed
   or its catch block logged: if (ctx.signal.aborted) break, then the reminder
   phase
   (AfterSyncPhaseRethrown: an exception of the phase leaves the loop) *)
AfterSyncPhaseRethrown(aborted, threw) ==
  IF aborted \/ threw THEN "stopped" ELSE "reminders"

AfterSyncPhase(aborted, threw) == IF aborted THEN "stopped" ELSE "reminders"

(* while (!ctx.signal.aborted): the loop is left, or the sync phase is entered *)
LoopEnters(t) ==
  /\ tasks[t].pc = "loop"
  /\ tasks' = [tasks EXCEPT ![t].pc = IF tasks[t].aborted THEN "stopped" ELSE "sync"]
  /\ UNCHANGED <<repoVars, acctVars, syncVars, raceVars, workerDisposables, sink, remRet,
                 settings, chat>>

(* The try block of the sync phase for a user none of whose accounts is
   enabled.  threw: userRepo.accounts.list() rejects, and the catch block
   logs 'Sync cycle failed' *)
SyncPhase(t, threw) ==
  /\ tasks[t].pc = "sync"
  /\ \A a \in AccountIds : accounts[a] = NoAccountDoc \/ ~accounts[a].enabled
  /\ tasks' = [tasks EXCEPT ![t].pc = AfterSyncPhase(tasks[t].aborted, threw)]
  /\ ret' = IF threw THEN [ret EXCEPT !.warned = @ \cup {"Sync cycle failed"}] ELSE ret
  /\ UNCHANGED <<events, clock, nextId, acctVars, syncVars, raceVars, workerDisposables, sink,
                 remRet, settings, chat>>

(* The reminder phase when userRepo.settings.get() or getUpcoming rejects: the
   catch block logs 'Reminder processing failed', nextReminderMs is still
   POLL_INTERVAL_MS, and the sleep follows *)
ReminderPhaseThrows(t) ==
  /\ tasks[t].pc = "reminders"
  /\ ~tasks[t].aborted
  /\ tasks' = [tasks EXCEPT ![t].pc = "sleep", ![t].wakeAt = clock + PollIntervalMinutes]
  /\ ret' = [ret EXCEPT !.warned = @ \cup {"Reminder processing failed"}]
  /\ UNCHANGED <<events, clock, nextId, acctVars, syncVars, raceVars, workerDisposables, sink,
                 remRet, settings, chat>>

InitLoop ==
  /\ events = ReminderCache
  /\ clock = 0
  /\ nextId = 3
  /\ ret = NoLoopLog
  /\ accounts = [a \in AccountIds |->
                   IF a = "a1" THEN DisabledDoc("caldav", "password") ELSE NoAccountDoc]
  /\ secrets = [a \in AccountIds |-> IF a = "a1" THEN PasswordCredentials ELSE NoSecret]
  /\ config = FullConfig
  /\ tokenLog = << >>
  /\ credRet = NoCredRet
  /\ syncState = [a \in AccountIds |-> NoSyncState]
  /\ remote = {}
  /\ pass = NoPass
  /\ syncRet = NoSyncRet
  /\ toolLog = NoToolLog
  /\ tasks = [t \in TaskIds |-> NoTask]
  /\ workerDisposables = NoWorker
  /\ sink = [k \in ReminderKeys |-> 0]
  /\ remRet = NoRemRet
  /\ settings = [reminderMinutes |-> DefaultReminderMinutes]
  /\ chat = TRUE
  /\ procs = [p \in Callers |-> NoProc]
  /\ raceLog = NoRaceLog

(* The steps of the loop of the task *)
LoopStep(t) ==
  \/ LoopEnters(t)
  \/ \E threw \in BOOLEAN : SyncPhase(t, threw)
  \/ ReminderPhaseStart(t)
  \/ ReminderPhaseThrows(t)
  \/ \E accepts \in BOOLEAN : RemindNext(t, accepts)
  \/ ReminderPhaseEnd(t)
  \/ Wake(t)

NextLoop ==
  \/ StartWorkerForUser("t1")
  \/ RegisterWorker("t1")
  \/ StopAll
  \/ LoopStep("t1")
  \/ Advance

SpecLoop == InitLoop /\ [][NextLoop]_vars

(* The host runs the task: a step of the loop that can be taken is taken *)
SpecLoopFair == SpecLoop /\ WF_vars(LoopStep("t1"))

----------------------------------------------------------------------------
(* Claims about the order of the phases *)

(* The positions the loop passes through, in the order of its statements *)
LoopOrder ==
  {<<"unused", "loop">>, <<"loop", "sync">>, <<"sync", "reminders">>,
   <<"reminders", "scan">>, <<"reminders", "sleep">>, <<"scan", "sleep">>,
   <<"sleep", "loop">>}

(* C31: while the signal is not aborted the loop goes from the sync phase to the
   reminder phase to the sleep and back, whether or not a phase threw; what a
   phase threw is logged; the loop ends only when the signal is aborted; and
   every phase that is entered is followed by the next one. *)
C31_PhasesRepeatInOrder ==
  /\ [][tasks'["t1"].pc # tasks["t1"].pc =>
          IF tasks'["t1"].pc = "stopped" THEN tasks["t1"].aborted
          ELSE <<tasks["t1"].pc, tasks'["t1"].pc>> \in LoopOrder]_vars
  /\ [][\A threw \in BOOLEAN :
          SyncPhase("t1", threw) /\ threw => "Sync cycle failed" \in ret'.warned]_vars
  /\ [][ReminderPhaseThrows("t1") => "Reminder processing failed" \in ret'.warned]_vars
  /\ [](tasks["t1"].pc = "stopped" => tasks["t1"].aborted)
  /\ (tasks["t1"].pc = "loop" ~> (tasks["t1"].pc = "sync" \/ tasks["t1"].aborted))
  /\ (tasks["t1"].pc = "sync" ~> (tasks["t1"].pc = "reminders" \/ tasks["t1"].aborted))
  /\ (tasks["t1"].pc = "reminders" ~> (tasks["t1"].pc = "sleep" \/ tasks["t1"].aborted))
  /\ (tasks["t1"].pc = "sleep" /\ clock >= tasks["t1"].wakeAt
        ~> (tasks["t1"].pc = "loop" \/ tasks["t1"].aborted))

(* Both phases have thrown, a reminder has been delivered all the same, and the
   loop, not aborted, sleeps *)
C31_Witness ==
  /\ ret.warned = {"Sync cycle failed", "Reminder processing failed"}
  /\ \E k \in ReminderKeys : sink[k] > 0
  /\ tasks["t1"].pc = "sleep"
  /\ ~tasks["t1"].aborted
  /\ clock > 0

----------------------------------------------------------------------------
(* The account document with all its fields, written by one call at a time *)

(* doc.calendars is optional; get() and list() hand out doc.calendars ?? [] *)
NoCalendars == [present |-> FALSE, list |-> << >>]

CalendarList(list) == [present |-> TRUE, list |-> list]

CalendarsOf(doc) == IF doc.calendars.present THEN doc.calendars.list ELSE << >>

(* An AccountDocument as upsert has created it at time 0, and as
   updateCalendars may have extended it *)
StoredDocument(provider, authType, calendars) ==
  [provider |-> provider, name |-> "n0", url |-> "null", authType |-> authType,
   enabled |-> TRUE, syncIntervalMs |-> IF provider = "ical" THEN 30 ELSE 10,
   lastSyncAt |-> NoTime, lastError |-> "null", createdAt |-> 0, updatedAt |-> 0,
   calendars |-> calendars]

(* What cal_accounts_update or the edit form hands to upsert for an existing
   account: fields left out are "undefined"; the secrets are a password, an
   access token with or without a refresh token, or none *)
EditInputs ==
  {i \in [provider : {"undefined"}, name : {"undefined", "n1"}, url : {"undefined", "u1"},
          enabled : {"undefined", "false"},
          accessToken : BOOLEAN, refreshToken : BOOLEAN, password : BOOLEAN] :
     /\ i.refreshToken => i.accessToken
     /\ i.password => ~i.accessToken
     /\ i.enabled = "undefined" \/ i.name = "undefined"}

(* upsert, the branch if (existing): the document literal handed to
   storage.put, which replaces the stored document *)
UpsertDocument(existing, input, credentials, now) ==
  [provider |-> IF input.provider # "undefined" THEN input.provider ELSE existing.provider,
   name |-> IF input.name # "undefined" THEN input.name ELSE existing.name,
   url |-> IF input.url # "undefined" THEN input.url ELSE existing.url,
   authType |-> IF InputHasSecret(input) THEN credentials.type ELSE existing.authType,
   enabled |-> IF input.enabled # "undefined" THEN input.enabled = "true"
               ELSE existing.enabled,
   syncIntervalMs |-> existing.syncIntervalMs,
   lastSyncAt |-> existing.lastSyncAt,
   lastError |-> existing.lastError,
   createdAt |-> existing.createdAt,
   updatedAt |-> now,
   calendars |-> NoCalendars]

(* { ...doc, updatedAt: now } *)
TouchedDocument(doc, now) == [doc EXCEPT !.updatedAt = now]

(* { ...doc, lastSyncAt: now, lastError: error, updatedAt: now } *)
StatusDocument(doc, error, now) ==
  [doc EXCEPT !.lastSyncAt = now, !.lastError = error, !.updatedAt = now]

(* { ...doc, calendars, updatedAt: now } *)
CalendarsDocument(doc, calendars, now) ==
  [doc EXCEPT !.calendars = CalendarList(calendars), !.updatedAt = now]

(* The last call made on the accounts repository: the document and the
   credentials it found *)
NoDocRet ==
  [op |-> "none", id |-> "", input |-> "none", before |-> NoAccountDoc,
   beforeCredentials |-> NoSecret, calls |-> 0]

MaxCalls == 2          \* calls made on the accounts repository in one behaviour

(* accounts.upsert(id, input) for an account that exists *)
AccountsUpsert(id, input) ==
  /\ accounts[id] # NoAccountDoc
  /\ ret.calls < MaxCalls
  /\ LET existing == accounts[id]
         credentials == InputCredentials(input, clock)
     IN /\ accounts' = [accounts EXCEPT
                          ![id] = UpsertDocument(existing, input, credentials, clock)]
        /\ secrets' = IF InputHasSecret(input) THEN [secrets EXCEPT ![id] = credentials]
                      ELSE secrets
        /\ ret' = [op |-> "upsert", id |-> id, input |-> input, before |-> existing,
                   beforeCredentials |-> LoadCredentials(secrets[id], existing.authType),
             calls |-> ret.calls + 1]
  /\ UNCHANGED <<events, clock, nextId, config, tokenLog, credRet, syncVars, remVars,
                 raceVars>>

(* accounts.updateCalendars(id, calendars) *)
AccountsUpdateCalendars(id, calendars) ==
  /\ accounts[id] # NoAccountDoc
  /\ ret.calls < MaxCalls
  /\ accounts' = [accounts EXCEPT ![id] = CalendarsDocument(@, calendars, clock)]
  /\ ret' = [op |-> "updateCalendars", id |-> id, input |-> "none", before |-> accounts[id],
             beforeCredentials |-> LoadCredentials(secrets[id], accounts[id].authType),
             calls |-> ret.calls + 1]
  /\ UNCHANGED <<events, clock, nextId, secrets, config, tokenLog, credRet, syncVars,
                 remVars, raceVars>>

(* accounts.updateSyncStatus(id, error) *)
AccountsUpdateSyncStatus(id, error) ==
  /\ accounts[id] # NoAccountDoc
  /\ ret.calls < MaxCalls
  /\ accounts' = [accounts EXCEPT ![id] = StatusDocument(@, error, clock)]
  /\ ret' = [op |-> "updateSyncStatus", id |-> id, input |-> "none", before |-> accounts[id],
             beforeCredentials |-> LoadCredentials(secrets[id], accounts[id].authType),
             calls |-> ret.calls + 1]
  /\ UNCHANGED <<events, clock, nextId, secrets, config, tokenLog, credRet, syncVars,
                 remVars, raceVars>>

(* ensureFreshCredentials(account, repo.accounts, config) on the account as
   accounts.get(id) has just loaded it; when it refreshes, updateCredentials
   puts the document with a new updatedAt and saves the payload *)
RefreshCredentials(id, resp) ==
  /\ accounts[id] # NoAccountDoc
  /\ ret.calls < MaxCalls
  /\ \E r \in {EnsureFreshResult(AccountOf(id), config, clock, resp, Len(tokenLog) + 1)} :
       /\ r.grant => Len(tokenLog) < MaxTokenRequests
       /\ tokenLog' = TokenLogAfter(AccountOf(id), r)
       /\ secrets' = SecretsAfter(AccountOf(id), r)
       /\ accounts' = IF r.outcome = "refreshed"
                      THEN [accounts EXCEPT ![id] = TouchedDocument(@, clock)]
                      ELSE accounts
       /\ credRet' = [account |-> id, at |-> clock, provider |-> accounts[id].provider,
                      before |-> AccountOf(id).credentials, outcome |-> r.outcome,
                      grant |-> r.grant, credentials |-> r.credentials]
       /\ ret' = [op |-> "ensureFreshCredentials", id |-> id, input |-> resp,
                  before |-> accounts[id],
                  beforeCredentials |-> AccountOf(id).credentials,
             calls |-> ret.calls + 1]
  /\ UNCHANGED <<events, clock, nextId, config, syncVars, remVars, raceVars>>

(* One account of the user: a Google or an Outlook account whose token is or is
   not yet due, or a CalDAV account; with or without a calendars list *)
InitDoc ==
  /\ events = {}
  /\ clock = 0
  /\ nextId = 1
  /\ ret = NoDocRet
  /\ \E s \in {<<"google", OAuth2Credentials(0, 0, 5)>>,
               <<"outlook", OAuth2Credentials(0, 0, 6)>>,
               <<"google", OAuth2Credentials(0, 0, 10)>>,
               <<"caldav", PasswordCredentials>>},
        calendars \in {NoCalendars, CalendarList(<<"c1">>)} :
       /\ accounts = [a \in AccountIds |->
                        IF a = "a1" THEN StoredDocument(s[1], s[2].type, calendars)
                        ELSE NoAccountDoc]
       /\ secrets = [a \in AccountIds |-> IF a = "a1" THEN s[2] ELSE NoSecret]
  /\ config = FullConfig
  /\ tokenLog = << >>
  /\ credRet = NoCredRet
  /\ syncState = [a \in AccountIds |-> NoSyncState]
  /\ remote = {}
  /\ pass = NoPass
  /\ syncRet = NoSyncRet
  /\ toolLog = NoToolLog
  /\ tasks = [t \in TaskIds |-> NoTask]
  /\ workerDisposables = NoWorker
  /\ sink = [k \in ReminderKeys |-> 0]
  /\ remRet = NoRemRet
  /\ settings = [reminderMinutes |-> DefaultReminderMinutes]
  /\ chat = TRUE
  /\ procs = [p \in Callers |-> NoProc]
  /\ raceLog = NoRaceLog

NextDoc ==
  \/ \E input \in EditInputs : AccountsUpsert("a1", input)
  \/ \E calendars \in {<< >>, <<"c1">>} : AccountsUpdateCalendars("a1", calendars)
  \/ \E error \in {"null", "boom"} : AccountsUpdateSyncStatus("a1", error)
  \/ \E resp \in TokenResponses : RefreshCredentials("a1", resp)
  \/ Tick

SpecDoc == InitDoc /\ [][NextDoc]_vars

----------------------------------------------------------------------------
(* Claims about the refreshed credentials *)

(* C32: when ensureFreshCredentials refreshes, the credentials it returns and
   the credentials loaded afterwards for the account are the same oauth2
   payload: the access token of the grant, the refresh token of the grant or,
   when the endpoint returned none, the previous one, and expiresAt = time of
   the refresh + expiresIn; authType and every other field of the account
   document but updatedAt are as before. *)
C32_RefreshedPayloadIsStored ==
  [][\A resp \in TokenResponses :
       (RefreshCredentials("a1", resp) /\ credRet'.outcome = "refreshed")
       => /\ credRet'.credentials = LoadCredentials(secrets'["a1"], accounts'["a1"].authType)
          /\ credRet'.credentials =
               [type |-> "oauth2",
                accessToken |-> Len(tokenLog'),
                refreshToken |-> IF resp.rotates THEN Len(tokenLog')
                                 ELSE credRet'.before.refreshToken,
                expiresAt |-> clock + resp.expiresIn]
          /\ credRet'.credentials.accessToken # credRet'.before.accessToken
          /\ accounts'["a1"] = [accounts["a1"] EXCEPT !.updatedAt = clock]
          /\ accounts'["a2"] = accounts["a2"]]_vars

(* A refresh after time has passed and after another refresh, whose grant
   returned no refresh token: the stored payload has the new access token and
   the refresh token of before *)
C32_Witness ==
  /\ ret.op = "ensureFreshCredentials"
  /\ credRet.outcome = "refreshed"
  /\ credRet.at > 0
  /\ credRet.before.refreshToken # 0
  /\ secrets["a1"] = credRet.credentials
  /\ secrets["a1"].refreshToken = credRet.before.refreshToken
  /\ secrets["a1"].accessToken # credRet.before.accessToken
  /\ accounts["a1"].updatedAt = credRet.at
  /\ accounts["a1"].authType = ret.before.authType

----------------------------------------------------------------------------
(* Sync passes over an account whose token is due and cannot be refreshed *)

(* The first account with the configuration of the extension: Google without
   client id and secret, Google without the secret, Google and Outlook with
   everything the grant needs (Outlook has a built-in client id) *)
RefreshSetups ==
  {<<"google", NoConfig>>,
   <<"google", [googleClientId |-> TRUE, googleClientSecret |-> FALSE]>>,
   <<"google", FullConfig>>,
   <<"outlook", NoConfig>>}

(* The event of the first account that an earlier pass has cached *)
CachedRow ==
  [id |-> 1, accountId |-> "a1", uid |-> "u1", title |-> "t0", startAt |-> 0, endAt |-> 1,
   responseStatus |-> "null", createdAt |-> 0, updatedAt |-> 0]

InitRefresh ==
  /\ events = {CachedRow}
  /\ clock = 0
  /\ nextId = 2
  /\ ret = NoRet
  /\ \E s \in RefreshSetups :
       /\ accounts = [a \in AccountIds |->
                        IF a = "a1" THEN AccountDoc(s[1], "oauth2") ELSE NoAccountDoc]
       /\ config = s[2]
  /\ secrets = [a \in AccountIds |->
                  IF a = "a1" THEN OAuth2Credentials(0, 0, 5) ELSE NoSecret]
  /\ tokenLog = << >>
  /\ credRet = NoCredRet
  /\ syncState = [a \in AccountIds |-> NoSyncState]
  /\ remote = {}
  /\ pass = NoPass
  /\ syncRet = NoSyncRet
  /\ toolLog = NoToolLog
  /\ tasks = [t \in TaskIds |-> NoTask]
  /\ workerDisposables = NoWorker
  /\ sink = [k \in ReminderKeys |-> 0]
  /\ remRet = NoRemRet
  /\ settings = [reminderMinutes |-> DefaultReminderMinutes]
  /\ chat = TRUE
  /\ procs = [p \in Callers |-> NoProc]
  /\ raceLog = NoRaceLog

NextRefresh ==
  \/ \E item \in {it \in RemoteItems : it.account = "a1"} : RemoteAdd(item)
  \/ \E i \in 1..Len(RemoteIds) : RemoteCancel(RemoteIds[i])
  \/ StartPass("context")
  \/ SyncNextAccount(Faults)
  \/ EndPass

SpecRefresh == InitRefresh /\ [][NextRefresh]_vars

----------------------------------------------------------------------------
(* Claims about a refresh that fails *)

(* The account's token is due and the grant cannot be sent for want of the
   Google configuration, or is sent and rejected with resp *)
RefreshFails(account, resp) ==
  /\ account.credentials.type = "oauth2"
  /\ \/ /\ account.provider = "google"
        /\ IsTokenExpired(account.credentials.expiresAt, clock)
        /\ (~config.googleClientId \/ ~config.googleClientSecret \/ ~resp.ok)
     \/ /\ account.provider = "outlook"
        /\ IsOutlookTokenExpired(account.credentials.expiresAt, clock)
        /\ ~resp.ok

(* The message the claim expects in lastError *)
RefreshMessage(account) ==
  IF account.provider = "google" /\ (~config.googleClientId \/ ~config.googleClientSecret)
  THEN "Google OAuth configuration missing for token refresh"
  ELSE "Failed to refresh token"

(* C33 as stated: when the token of a Google account is due and client id or
   secret is missing, or the endpoint rejects the grant, syncAccountEvents fails
   in ensureFreshCredentials, the stored credentials stay as they are, no fetch
   is made, the cache is not changed, and lastError carries the message. *)
C33_AsStated ==
  [](\A id \in AccountIds, fault \in Faults, statusErr \in BOOLEAN,
        resp \in SyncTokenResponses :
       (accounts[id] # NoAccountDoc /\ RefreshFails(AccountOf(id), resp))
       => \A fetch \in Fetches(AccountOf(id), syncState[id].syncToken) :
            \E r \in {SyncAccountEventsResult(AccountOf(id), fault, statusErr, resp, fetch)} :
              /\ r.stage = "credentials"
              /\ r.secrets = secrets
              /\ ~r.fetched
              /\ r.events = events /\ r.nextId = nextId
              /\ r.accounts[id].lastError = RefreshMessage(AccountOf(id)))

(* C33 amended: as stated, except that lastError carries the message unless the
   write of the status fails as well, in which case the account document stays
   as it was; and a step of the pass that failed in ensureFreshCredentials left
   secrets, cache and cursor alone and sent at most the one grant. *)
C33_FailedRefreshIsContained ==
  /\ [](\A id \in AccountIds, fault \in Faults, statusErr \in BOOLEAN,
           resp \in SyncTokenResponses :
          (accounts[id] # NoAccountDoc /\ RefreshFails(AccountOf(id), resp))
          => \A fetch \in Fetches(AccountOf(id), syncState[id].syncToken) :
               \E r \in {SyncAccountEventsResult(AccountOf(id), fault, statusErr, resp,
                                                 fetch)} :
                 /\ r.stage = "credentials"
                 /\ r.secrets = secrets
                 /\ ~r.fetched
                 /\ r.events = events /\ r.nextId = nextId
                 /\ r.accounts[id].lastError =
                      IF statusErr THEN accounts[id].lastError
                      ELSE RefreshMessage(AccountOf(id))
                 /\ statusErr => r.accounts = accounts)
  /\ [][(SyncNextAccount(Faults) /\ syncRet'.called /\ syncRet'.stage = "credentials")
          => /\ secrets' = secrets
             /\ events' = events
             /\ syncState' = syncState
             /\ ~syncRet'.fetched
             /\ Len(tokenLog') <= Len(tokenLog) + 1
             /\ \/ syncRet'.account \in pass'.unrecorded
                \/ accounts'[syncRet'.account].lastError =
                     RefreshMessage(AccountOf(syncRet'.account))]_vars

(* The pass has called syncAccountEvents for the first account while the
   server held an event for it: the grant was sent and rejected, the message is
   in lastError, and cache and secret are those of before *)
C33_Witness ==
  /\ syncRet.called /\ syncRet.account = "a1" /\ syncRet.stage = "credentials"
  /\ Len(tokenLog) = 1
  /\ accounts["a1"].lastError = "Failed to refresh token"
  /\ \E it \in remote : it.account = "a1"
  /\ events = {CachedRow}
  /\ secrets["a1"] = OAuth2Credentials(0, 0, 5)

----------------------------------------------------------------------------
(* The syncState collection written by passes that interleave *)

(* `sync_${accountId}`
   (SyncStateIdPerCaller: an id made anew by each caller, as generateId does
   for accounts) *)
SyncStateIdPerCaller(accountId, caller) == "sync_" \o accountId \o "_" \o caller

SyncStateId(accountId, caller) == "sync_" \o accountId

(* findOne found no document *)
NoStateDocument ==
  [id |-> "", accountId |-> "", syncToken |-> "null", deltaLink |-> "null",
   lastSyncAt |-> NoTime, updatedAt |-> NoTime]

(* The cursors a provider's result can carry: syncResult.syncToken ?? null and
   syncResult.deltaLink ?? null *)
ResultCursors ==
  {[syncToken |-> "s2", deltaLink |-> "null"], [syncToken |-> "null", deltaLink |-> "d1"],
   [syncToken |-> "null", deltaLink |-> "null"]}

(* A caller that is not inside syncState.upsert *)
NoCursorProc ==
  [pc |-> "idle", account |-> "", cursor |-> [syncToken |-> "null", deltaLink |-> "null"],
   now |-> 0, existing |-> NoStateDocument]

(* storage.findOne(syncState, { accountId }): any one of the matching documents *)
FindOneState(coll, accountId) ==
  IF \E d \in coll : d.accountId = accountId
  THEN {d \in coll : d.accountId = accountId}
  ELSE {NoStateDocument}

(* The document upsert hands to storage.put: the existing one with the new
   cursor fields, or a new one *)
UpsertedState(existing, accountId, caller, cursor, now) ==
  IF existing # NoStateDocument
  THEN [existing EXCEPT !.syncToken = cursor.syncToken, !.deltaLink = cursor.deltaLink,
                        !.lastSyncAt = now, !.updatedAt = now]
  ELSE [id |-> SyncStateId(accountId, caller), accountId |-> accountId,
        syncToken |-> cursor.syncToken, deltaLink |-> cursor.deltaLink,
        lastSyncAt |-> now, updatedAt |-> now]

(* A pass of caller p for the account has upserted the events and handled the
   tombstones, and calls syncState.upsert(account.id, syncToken, deltaLink):
   now is taken *)
CursorUpsertBegins(p, accountId, cursor) ==
  /\ procs[p].pc = "idle"
  /\ procs' = [procs EXCEPT ![p] = [NoCursorProc EXCEPT !.pc = "find", !.account = accountId,
                                                         !.cursor = cursor, !.now = clock]]
  /\ UNCHANGED <<repoVars, acctVars, syncVars, remVars, raceLog>>

(* const existing = await this.storage.findOne(...) *)
CursorUpsertFinds(p) ==
  /\ procs[p].pc = "find"
  /\ \E d \in FindOneState(syncState, procs[p].account) :
       procs' = [procs EXCEPT ![p].pc = "put", ![p].existing = d]
  /\ UNCHANGED <<repoVars, acctVars, syncVars, remVars, raceLog>>

(* await this.storage.put(COLLECTIONS.syncState, id, doc) *)
CursorUpsertPuts(p) ==
  /\ procs[p].pc = "put"
  /\ \E doc \in {UpsertedState(procs[p].existing, procs[p].account, p, procs[p].cursor,
                               procs[p].now)} :
       /\ syncState' = {d \in syncState : d.id # doc.id} \cup {doc}
       /\ procs' = [procs EXCEPT ![p].pc = "idle"]
  /\ UNCHANGED <<repoVars, acctVars, remote, pass, syncRet, toolLog, remVars, raceLog>>

(* syncState.delete(accountId): storage.deleteMany(syncState, { accountId }) *)
CursorDelete(accountId) ==
  /\ syncState' = {d \in syncState : d.accountId # accountId}
  /\ syncState' # syncState
  /\ UNCHANGED <<repoVars, acctVars, remote, pass, syncRet, toolLog, remVars, raceVars>>

InitCursor ==
  /\ events = {}
  /\ clock = 0
  /\ nextId = 1
  /\ ret = NoRet
  /\ accounts = [a \in AccountIds |-> AccountDoc("google", "oauth2")]
  /\ secrets = [a \in AccountIds |-> OAuth2Credentials(0, 0, 10)]
  /\ config = FullConfig
  /\ tokenLog = << >>
  /\ credRet = NoCredRet
  /\ \E stored \in SUBSET {UpsertedState(NoStateDocument, "a1", "worker",
                                         [syncToken |-> "s1", deltaLink |-> "null"], 0)} :
       syncState = stored \cup {UpsertedState(NoStateDocument, "a2", "worker",
                                              [syncToken |-> "s1", deltaLink |-> "null"], 0)}
  /\ remote = {}
  /\ pass = NoPass
  /\ syncRet = NoSyncRet
  /\ toolLog = NoToolLog
  /\ tasks = [t \in TaskIds |-> NoTask]
  /\ workerDisposables = NoWorker
  /\ sink = [k \in ReminderKeys |-> 0]
  /\ remRet = NoRemRet
  /\ settings = [reminderMinutes |-> DefaultReminderMinutes]
  /\ chat = TRUE
  /\ procs = [p \in Callers |-> NoCursorProc]
  /\ raceLog = NoRaceLog

NextCursor ==
  \/ \E p \in SyncCallers, cursor \in ResultCursors : CursorUpsertBegins(p, "a1", cursor)
  \/ \E p \in SyncCallers : CursorUpsertFinds(p)
  \/ \E p \in SyncCallers : CursorUpsertPuts(p)
  \/ CursorDelete("a1")
  \/ Tick

SpecCursor == InitCursor /\ [][NextCursor]_vars

----------------------------------------------------------------------------
(* Claims about the syncState collection *)

(* C34: in every reachable state the collection holds at most one SyncState
   document per account id, however the passes of an account interleave; and
   the put of a pass that succeeded leaves that one document holding the
   pass's syncToken and deltaLink, under the id it had. *)
C34_OneSyncStatePerAccount ==
  /\ [](\A a \in AccountIds : Cardinality({d \in syncState : d.accountId = a}) <= 1)
  /\ [][\A p \in SyncCallers :
          CursorUpsertPuts(p)
          => \E d \in syncState' :
               /\ d.accountId = procs[p].account
               /\ d.syncToken = procs[p].cursor.syncToken
               /\ d.deltaLink = procs[p].cursor.deltaLink
               /\ \A e \in syncState : e.accountId = d.accountId => e.id = d.id
               /\ syncState' \ {d} = {e \in syncState : e.accountId # d.accountId}]_vars

(* Two passes of one account were both inside upsert having found no document,
   both have put theirs, with different cursors, and the collection holds one
   document of the account, with the cursor of one of them, next to the
   document of the other account *)
C34_Witness ==
  /\ \A p \in SyncCallers :
       /\ procs[p].pc = "idle" /\ procs[p].account = "a1"
       /\ procs[p].existing = NoStateDocument
  /\ procs["worker"].cursor # procs["tool"].cursor
  /\ Cardinality({d \in syncState : d.accountId = "a1"}) = 1
  /\ \E d \in syncState : /\ d.accountId = "a1"
                          /\ d.syncToken = procs["tool"].cursor.syncToken
                          /\ d.deltaLink = procs["tool"].cursor.deltaLink
  /\ \E d \in syncState : d.accountId = "a2"

----------------------------------------------------------------------------
(* Claims about the moment the cursor is written *)

(* The stages of syncAccountEvents that come before syncState.upsert has run *)
StagesBeforeCursor ==
  {"provider", "credentials", "fetch", "upsert", "delete", "tombstone", "cursor"}

(* C35: a call of syncAccountEvents changes the account's stored cursor only
   when every event of the result has been upserted and every tombstone has been
   processed; when the call fails at an earlier step the stored syncToken and
   deltaLink of every account are as before, so that the next pass hands the
   provider the same token and can be answered with the same delta. *)
C35_CursorWrittenLast ==
  [][(SyncNextAccount(Faults) /\ syncRet'.called)
     => \E acc \in {syncRet'.account} :
          /\ syncState'[acc] # syncState[acc]
             => /\ syncRet'.stage \in {"status", "none"}
                /\ \A x \in syncRet'.returned :
                     x[2] \notin syncRet'.deletedUids
                     => \E r \in events' : r.accountId = acc /\ r.uid = x[2]
                /\ \A X \in syncRet'.deletedUids :
                     ~\E r \in events' : r.accountId = acc /\ r.uid = X
                /\ syncState'[acc] = SyncStateDoc(syncRet'.syncToken, syncRet'.deltaLink)
          /\ syncRet'.stage \in StagesBeforeCursor
             => /\ syncState' = syncState
                /\ Fetches(AccountOf(acc), syncState'[acc].syncToken)
                     = Fetches(AccountOf(acc), syncState[acc].syncToken)
          /\ \A b \in AccountIds \ {acc} : syncState'[b] = syncState[b]]_vars

(* A pass of an account without a stored cursor failed at the first upsert of a
   result that carried a token, and the account still has no cursor; the server
   holds an event *)
C35_Witness ==
  /\ syncRet.called /\ syncRet.stage = "upsert"
  /\ syncRet.fetched /\ syncRet.returned # {}
  /\ syncRet.syncToken = "s1"
  /\ syncState[syncRet.account] = NoSyncState
  /\ accounts[syncRet.account].lastError # "null"

----------------------------------------------------------------------------
(* Sync passes over a cache that holds events the servers no longer list *)

(* The row cached by an earlier pass of the second account, now disabled: an
   event that has the uid of an event on the first account's server *)
StaleRows ==
  {[id |-> 1, accountId |-> "a2", uid |-> "u1", title |-> "t0", startAt |-> 0, endAt |-> 1,
    responseStatus |-> "null", createdAt |-> 0, updatedAt |-> 0]}

(* The first account on each of the providers, with credentials that need no
   refresh *)
StaleSetups ==
  {<<"ical", "none", NoCredentials>>,
   <<"caldav", "password", PasswordCredentials>>,
   <<"icloud", "password", PasswordCredentials>>,
   <<"outlook", "oauth2", OAuth2Credentials(0, 0, 100)>>,
   <<"google", "oauth2", OAuth2Credentials(0, 0, 100)>>}

InitStale ==
  /\ events = StaleRows
  /\ clock = 0
  /\ nextId = 2
  /\ ret = NoRet
  /\ \E s \in StaleSetups :
       /\ accounts = [a \in AccountIds |->
                        IF a = "a1" THEN AccountDoc(s[1], s[2])
                        ELSE DisabledDoc("caldav", "password")]
       /\ secrets = [a \in AccountIds |-> IF a = "a1" THEN s[3] ELSE PasswordCredentials]
  /\ config = FullConfig
  /\ tokenLog = << >>
  /\ credRet = NoCredRet
  /\ syncState = [a \in AccountIds |-> NoSyncState]
  /\ remote = {}
  /\ pass = NoPass
  /\ syncRet = NoSyncRet
  /\ toolLog = NoToolLog
  /\ tasks = [t \in TaskIds |-> NoTask]
  /\ workerDisposables = NoWorker
  /\ sink = [k \in ReminderKeys |-> 0]
  /\ remRet = NoRemRet
  /\ settings = [reminderMinutes |-> DefaultReminderMinutes]
  /\ chat = TRUE
  /\ procs = [p \in Callers |-> NoProc]
  /\ raceLog = NoRaceLog

NextStale ==
  \/ \E item \in RemoteItems : RemoteAdd(item)
  \/ \E i \in 1..Len(RemoteIds) : RemoteCancel(RemoteIds[i])
  \/ StartPass("context")
  \/ SyncNextAccount({"none"})
  \/ EndPass

SpecStale == InitStale /\ [][NextStale]_vars

----------------------------------------------------------------------------
(* Claims about what a pass removes from the cache *)

(* C36: a call of syncAccountEvents removes a cached row only when it is a row
   of the account whose uid is among the result's deletedUids; a row of the
   account whose uid is neither returned nor among the deletedUids stays as it
   is, whether the result was a full listing or a delta; and the rows of other
   accounts stay as they are. *)
C36_OnlyTombstonesDelete ==
  [][(SyncNextAccount({"none"}) /\ syncRet'.called)
     => \E acc \in {syncRet'.account} :
          /\ \A r \in events :
               (~\E q \in events' : q.id = r.id)
               => r.accountId = acc /\ r.uid \in syncRet'.deletedUids
          /\ \A r \in events :
               (/\ r.accountId = acc
                /\ r.uid \notin syncRet'.deletedUids
                /\ r.uid \notin {x[2] : x \in syncRet'.returned})
               => r \in events'
          /\ \A r \in events : r.accountId # acc => r \in events']_vars

(* A pass without a stored token has listed the whole calendar of the first
   account after the server dropped the event cached earlier: the result names
   no event and no tombstone, and the row of that event and the row of the other
   account with the same uid are still there *)
C36_Witness ==
  /\ syncRet.called /\ syncRet.account = "a1" /\ syncRet.stage = "none"
  /\ syncRet.fetched /\ ~syncRet.hadToken
  /\ syncRet.returned = {} /\ syncRet.deletedUids = {}
  /\ \E r \in events : r.accountId = "a1" /\ r.uid = "u1"
  /\ StaleRows \subseteq events

----------------------------------------------------------------------------
(* An account deleted while a sync pass for it is between two awaits *)

InitOrphan ==
  /\ events = {}
  /\ clock = 0
  /\ nextId = 1
  /\ ret = NoRet
  /\ accounts = [a \in AccountIds |->
                   IF a = "a1" THEN AccountDoc("ical", "none")
                   ELSE AccountDoc("google", "oauth2")]
  /\ \E exp \in RaceExpiries :
       secrets = [a \in AccountIds |->
                    IF a = "a1" THEN NoCredentials ELSE OAuth2Credentials(0, 0, exp)]
  /\ config = FullConfig
  /\ tokenLog = << >>
  /\ credRet = NoCredRet
  /\ syncState = [a \in AccountIds |-> NoSyncState]
  /\ remote \in {{}, {it \in RemoteItems : it.account = RacingAccount}}
  /\ pass = NoPass
  /\ syncRet = NoSyncRet
  /\ toolLog = NoToolLog
  /\ tasks = [t \in TaskIds |-> NoTask]
  /\ workerDisposables = NoWorker
  /\ sink = [k \in ReminderKeys |-> 0]
  /\ remRet = NoRemRet
  /\ settings = [reminderMinutes |-> DefaultReminderMinutes]
  /\ chat = TRUE
  /\ procs = [p \in Callers |-> NoProc]
  /\ raceLog = NoRaceLog

(* A pass that lists the accounts while both exist *)
OrphanPassBegins(p) ==
  /\ \A a \in AccountIds : accounts[a] # NoAccountDoc
  /\ PassBegins(p)

(* The steps of the pass of the cal_events_sync tool, and cal_accounts_delete or
   the deleteAccount action for the second account, whose awaits all fall
   between two awaits of the pass *)
NextOrphan ==
  \/ OrphanPassBegins("tool")
  \/ SyncFirstAccount("tool")
  \/ EnsureFreshBegins("tool")
  \/ \E resp \in RaceTokenResponses : GrantReturns("tool", resp)
  \/ SaveCredentials("tool")
  \/ ReadSyncState("tool")
  \/ ProviderFetch("tool")
  \/ UpsertFind("tool")
  \/ UpsertPut("tool")
  \/ WriteCursor("tool")
  \/ WriteStatus("tool")
  \/ \E via \in {"tool", "action"} : DeleteAccount(RacingAccount, "none", via)

SpecOrphan == InitOrphan /\ [][NextOrphan]_vars

----------------------------------------------------------------------------
(* Claims about what is left of a deleted account *)

(* C37: in every state in which no operation is in flight, each cached event
   and each SyncState belongs to an account that exists, also when the account
   was deleted while a sync pass that had listed it was under way. *)
C37_NoOrphans ==
  (\A p \in Callers : procs[p].pc \in {"idle", "done"})
  => /\ \A r \in events : accounts[r.accountId] # NoAccountDoc
     /\ \A a \in AccountIds : syncState[a].present => accounts[a] # NoAccountDoc

(* The pass is over and the deletion has reported success; the account is gone,
   and the cache holds an event and the syncState collection a cursor of it *)
C37_OrphansOfDeletedAccount ==
  /\ procs["tool"].pc = "done"
  /\ ret.op = "deleteAccount" /\ ret.success
  /\ accounts[RacingAccount] = NoAccountDoc
  /\ \E r \in events : r.accountId = RacingAccount
  /\ syncState[RacingAccount].present

----------------------------------------------------------------------------
(* An account edited while a sync pass for it is between two awaits *)

(* The edits made here: one field of the form changed, or new secrets *)
RaceEdits ==
  {i \in EditInputs :
     Cardinality({f \in {"name", "url", "enabled"} : i[f] # "undefined"}
                 \cup (IF InputHasSecret(i) THEN {"secret"} ELSE {})) = 1}

(* No upsert has been called; the pass has not begun *)
NoEdit ==
  [op |-> "upsert", pc |-> "idle", input |-> "none", doc |-> NoAccountDoc,
   credentials |-> NoSecret, save |-> FALSE, during |-> FALSE]

NoEditPass ==
  [pc |-> "idle", account |-> NoSnapshot, credentials |-> NoSecret, serial |-> 0,
   doc |-> NoAccountDoc, now |-> 0]

(* The pass is between its accounts.list() and the return of updateSyncStatus *)
EditPassInFlight == procs["worker"].pc \notin {"idle", "done"}

(* upsert(id, input) up to its storage.put: existing = await this.get(id), then
   the document is built *)
EditBegins(id, input) ==
  /\ ret.pc = "idle"
  /\ accounts[id] # NoAccountDoc
  /\ \E credentials \in {InputCredentials(input, clock)} :
       ret' = [op |-> "upsert", pc |-> "put", input |-> input,
               doc |-> UpsertDocument(accounts[id], input, credentials, clock),
               credentials |-> IF InputHasSecret(input) THEN credentials
                               ELSE AccountOf(id).credentials,
               save |-> InputHasSecret(input),
               during |-> EditPassInFlight]
  /\ UNCHANGED <<events, clock, nextId, acctVars, syncVars, remVars, raceVars>>

(* await this.storage.put(COLLECTIONS.accounts, accountId, doc) *)
EditPuts(id) ==
  /\ ret.pc = "put"
  /\ accounts' = [accounts EXCEPT ![id] = ret.doc]
  /\ ret' = [ret EXCEPT !.pc = IF ret.save THEN "save" ELSE "done",
                        !.during = @ /\ (ret.save \/ EditPassInFlight)]
  /\ UNCHANGED <<events, clock, nextId, secrets, config, tokenLog, credRet, syncVars,
                 remVars, raceVars>>

(* await this.saveCredentials(accountId, finalCredentials) *)
EditSaves(id) ==
  /\ ret.pc = "save"
  /\ secrets' = [secrets EXCEPT ![id] = ret.credentials]
  /\ ret' = [ret EXCEPT !.pc = "done", !.during = @ /\ EditPassInFlight]
  /\ UNCHANGED <<events, clock, nextId, accounts, config, tokenLog, credRet, syncVars,
                 remVars, raceVars>>

(* The pass lists the accounts and calls syncAccountEvents for the account:
   ensureFreshCredentials tests the expiry of the credentials listed and, when
   due, sends the refresh grant *)
EditPassBegins(p, id) ==
  /\ procs[p].pc = "idle"
  /\ accounts[id] # NoAccountDoc /\ accounts[id].enabled
  /\ \E account \in {AccountOf(id)} :
     \E r \in {EnsureFreshResult(account, config, clock,
                                 [ok |-> TRUE, rotates |-> FALSE, expiresIn |-> 10], 0)} :
       /\ tokenLog' = TokenLogAfter(account, r)
       /\ procs' = [procs EXCEPT
                      ![p] = [NoEditPass EXCEPT
                                !.pc = IF r.grant THEN "grant" ELSE "sync",
                                !.account = account,
                                !.credentials = account.credentials,
                                !.serial = Len(tokenLog) + 1]]
  /\ UNCHANGED <<repoVars, accounts, secrets, config, credRet, syncVars, remVars, raceLog>>

(* The token endpoint answers the grant with new tokens: updateCredentials is
   called and reads the document *)
EditPassGrantReturns(p, resp) ==
  /\ procs[p].pc = "grant"
  /\ resp.ok
  /\ procs' = [procs EXCEPT
                 ![p].pc = IF accounts[procs[p].account.id] = NoAccountDoc THEN "sync"
                           ELSE "touch",
                 ![p].credentials = RefreshedCredentials(procs[p].account.credentials, resp,
                                                         clock, procs[p].serial),
                 ![p].doc = accounts[procs[p].account.id],
                 ![p].now = clock]
  /\ UNCHANGED <<repoVars, acctVars, syncVars, remVars, raceLog>>

(* updateCredentials: await this.storage.put(accounts, id, { ...doc, updatedAt }) *)
EditPassTouches(p) ==
  /\ procs[p].pc = "touch"
  /\ accounts' = [accounts EXCEPT
                    ![procs[p].account.id] = TouchedDocument(procs[p].doc, procs[p].now)]
  /\ procs' = [procs EXCEPT ![p].pc = "save", ![p].doc = NoAccountDoc]
  /\ UNCHANGED <<repoVars, secrets, config, tokenLog, credRet, syncVars, remVars, raceLog>>

(* updateCredentials: await this.saveCredentials(id, credentials) *)
EditPassSaves(p) ==
  /\ procs[p].pc = "save"
  /\ secrets' = [secrets EXCEPT ![procs[p].account.id] = procs[p].credentials]
  /\ procs' = [procs EXCEPT ![p].pc = "sync"]
  /\ UNCHANGED <<repoVars, accounts, config, tokenLog, credRet, syncVars, remVars, raceLog>>

(* The cursor is read, the server, which holds no event, is asked, the cursor
   is written, and updateSyncStatus(account.id, null) reads the document *)
EditPassSyncs(p) ==
  /\ procs[p].pc = "sync"
  /\ \E id \in {procs[p].account.id} :
     \E sr \in {ProviderSyncEvents(procs[p].account, procs[p].credentials,
                                   syncState[id].syncToken, {},
                                   [outcome |-> "ok", delta |-> {}])} :
       /\ ~sr.threw
       /\ syncState' = [syncState EXCEPT ![id] = SyncStateDoc(sr.syncToken, sr.deltaLink)]
       /\ procs' = [procs EXCEPT
                      ![p].pc = IF accounts[id] = NoAccountDoc THEN "done" ELSE "status",
                      ![p].doc = accounts[id], ![p].now = clock]
  /\ UNCHANGED <<repoVars, acctVars, remote, pass, syncRet, toolLog, remVars, raceLog>>

(* updateSyncStatus: await this.storage.put(accounts, id, updatedDoc) *)
EditPassWritesStatus(p) ==
  /\ procs[p].pc = "status"
  /\ accounts' = [accounts EXCEPT
                    ![procs[p].account.id] = StatusDocument(procs[p].doc, "null",
                                                            procs[p].now)]
  /\ procs' = [procs EXCEPT ![p].pc = "done", ![p].doc = NoAccountDoc]
  /\ UNCHANGED <<repoVars, secrets, config, tokenLog, credRet, syncVars, remVars, raceLog>>

InitEdit ==
  /\ events = {}
  /\ clock = 0
  /\ nextId = 1
  /\ ret = NoEdit
  /\ \E exp \in RaceExpiries :
       /\ accounts = [a \in AccountIds |->
                        IF a = "a1" THEN StoredDocument("google", "oauth2", NoCalendars)
                        ELSE NoAccountDoc]
       /\ secrets = [a \in AccountIds |->
                       IF a = "a1" THEN OAuth2Credentials(0, 0, exp) ELSE NoSecret]
  /\ config = FullConfig
  /\ tokenLog = << >>
  /\ credRet = NoCredRet
  /\ syncState = [a \in AccountIds |-> NoSyncState]
  /\ remote = {}
  /\ pass = NoPass
  /\ syncRet = NoSyncRet
  /\ toolLog = NoToolLog
  /\ tasks = [t \in TaskIds |-> NoTask]
  /\ workerDisposables = NoWorker
  /\ sink = [k \in ReminderKeys |-> 0]
  /\ remRet = NoRemRet
  /\ settings = [reminderMinutes |-> DefaultReminderMinutes]
  /\ chat = TRUE
  /\ procs = [p \in Callers |-> NoEditPass]
  /\ raceLog = NoRaceLog

NextEdit ==
  \/ \E input \in RaceEdits : EditBegins("a1", input)
  \/ EditPuts("a1")
  \/ EditSaves("a1")
  \/ EditPassBegins("worker", "a1")
  \/ \E resp \in RaceTokenResponses : EditPassGrantReturns("worker", resp)
  \/ EditPassTouches("worker")
  \/ EditPassSaves("worker")
  \/ EditPassSyncs("worker")
  \/ EditPassWritesStatus("worker")
  \/ Tick

SpecEdit == InitEdit /\ [][NextEdit]_vars

----------------------------------------------------------------------------
(* Claims about an edit made during a pass *)

(* C38: when an edit of the account began and completed while a sync pass for
   the account was in flight, then after the pass the account document is the
   one the edit stored, but for lastSyncAt, lastError and updatedAt, and the
   credentials are those of the edit when it carried any. *)
C38_EditSurvivesThePass ==
  (procs["worker"].pc = "done" /\ ret.pc = "done" /\ ret.during)
  => /\ accounts["a1"] = [ret.doc EXCEPT !.lastSyncAt = accounts["a1"].lastSyncAt,
                                         !.lastError = accounts["a1"].lastError,
                                         !.updatedAt = accounts["a1"].updatedAt]
     /\ ret.save => secrets["a1"] = ret.credentials

(* The name of the account was changed between the read and the write of the
   pass's updateSyncStatus; the pass is over and the account has its old name *)
C38_EditUndone ==
  /\ procs["worker"].pc = "done" /\ ret.pc = "done" /\ ret.during
  /\ ret.input.name = "n1"
  /\ ret.doc.name = "n1"
  /\ accounts["a1"].name = "n0"
  /\ accounts["a1"].lastSyncAt # NoTime

----------------------------------------------------------------------------
(* Claims about what an edit of an account leaves alone *)

(* C39: after upsert on an account that exists, the calendars list, lastSyncAt,
   lastError and createdAt of the account are those it had before, and so are
   its authType and its stored credentials when the input carries neither a
   password nor an access token. *)
C39_UpsertFrame ==
  ret.op = "upsert"
  => /\ CalendarsOf(accounts[ret.id]) = CalendarsOf(ret.before)
     /\ accounts[ret.id].lastSyncAt = ret.before.lastSyncAt
     /\ accounts[ret.id].lastError = ret.before.lastError
     /\ accounts[ret.id].createdAt = ret.before.createdAt
     /\ ~InputHasSecret(ret.input)
        => /\ accounts[ret.id].authType = ret.before.authType
           /\ LoadCredentials(secrets[ret.id], accounts[ret.id].authType)
                = ret.beforeCredentials

(* An account with one calendar was renamed, and has no calendar since *)
C39_CalendarsLost ==
  /\ ret.op = "upsert"
  /\ ret.input.name = "n1" /\ ~InputHasSecret(ret.input)
  /\ CalendarsOf(ret.before) = <<"c1">>
  /\ accounts[ret.id].name = "n1"
  /\ CalendarsOf(accounts[ret.id]) = << >>

----------------------------------------------------------------------------
(* The in-memory states of the event detail modal, one per user *)

MAX_STATES == 100

MaxUsers == 102        \* user ids other than the empty string

(* The module-level Map, as its keys in insertion order; it is held in the
   variable settings under this specification *)
states == settings

(* The user ids: the empty string and u1, u2, ... *)
UserId(n) == IF n = 0 THEN "" ELSE "u" \o ToString(n)

(* states.has(userId) *)
StatesHas(map, userId) == \E i \in 1..Len(map) : map[i] = userId

(* if (oldestKey): the empty string and undefined are falsy *)
IsTruthyKey(map) == Len(map) > 0 /\ Head(map) # ""

(* states.delete(userId) *)
StatesDelete(map, userId) == SelectSeq(map, LAMBDA k : k # userId)

(* The map after getEventDetailState(userId) *)
StatesAfterGet(map, userId) ==
  IF StatesHas(map, userId) THEN map
  ELSE Append(IF Len(map) >= MAX_STATES /\ IsTruthyKey(map) THEN Tail(map) ELSE map,
              userId)

NoDetailCall ==
  [op |-> "none", userId |-> "", oldest |-> "undefined", had |-> FALSE, size |-> 0,
   fresh |-> 1]

(* The key states.keys().next() yields *)
OldestKey(map) == IF Len(map) > 0 THEN Head(map) ELSE "undefined"

(* getEventDetailState(userId) *)
GetEventDetailState(userId, fresh) ==
  /\ states' = StatesAfterGet(states, userId)
  /\ ret' = [op |-> "get", userId |-> userId, oldest |-> OldestKey(states),
             had |-> StatesHas(states, userId), size |-> Len(states), fresh |-> fresh]
  /\ UNCHANGED <<events, clock, nextId, acctVars, syncVars, tasks, workerDisposables,
                 sink, remRet, chat, raceVars>>

(* getEventDetailState for a user who has no state and never had one *)
GetStateOfNewUser ==
  /\ ret.fresh <= MaxUsers
  /\ GetEventDetailState(UserId(ret.fresh), ret.fresh + 1)

(* getEventDetailState for the empty user id, or for the user whose state is
   the oldest or the newest of the map *)
GetStateOfKnownUser ==
  \E userId \in {""} \cup (IF Len(states) > 0 THEN {Head(states), states[Len(states)]}
                           ELSE {}) :
    GetEventDetailState(userId, ret.fresh)

(* deleteEventDetailState(userId) *)
DeleteEventDetailState(userId) ==
  /\ states' = StatesDelete(states, userId)
  /\ ret' = [op |-> "delete", userId |-> userId, oldest |-> OldestKey(states),
             had |-> StatesHas(states, userId), size |-> Len(states),
             fresh |-> ret.fresh]
  /\ UNCHANGED <<events, clock, nextId, acctVars, syncVars, tasks, workerDisposables,
                 sink, remRet, chat, raceVars>>

(* clearAllEventDetailStates() *)
ClearAllEventDetailStates ==
  /\ states' = << >>
  /\ ret' = [op |-> "clear", userId |-> "", oldest |-> OldestKey(states),
             had |-> FALSE, size |-> Len(states), fresh |-> 1]
  /\ UNCHANGED <<events, clock, nextId, acctVars, syncVars, tasks, workerDisposables,
                 sink, remRet, chat, raceVars>>

InitDetail ==
  /\ events = {}
  /\ clock = 0
  /\ nextId = 1
  /\ ret = NoDetailCall
  /\ accounts = [a \in AccountIds |-> NoAccountDoc]
  /\ secrets = [a \in AccountIds |-> NoSecret]
  /\ config = FullConfig
  /\ tokenLog = << >>
  /\ credRet = NoCredRet
  /\ syncState = [a \in AccountIds |-> NoSyncState]
  /\ remote = {}
  /\ pass = NoPass
  /\ syncRet = NoSyncRet
  /\ toolLog = NoToolLog
  /\ tasks = [t \in TaskIds |-> NoTask]
  /\ workerDisposables = NoWorker
  /\ sink = [k \in ReminderKeys |-> 0]
  /\ remRet = NoRemRet
  /\ states = << >>
  /\ chat = TRUE
  /\ procs = [p \in Callers |-> NoProc]
  /\ raceLog = NoRaceLog

NextDetail ==
  \/ GetStateOfNewUser
  \/ GetStateOfKnownUser
  \/ DeleteEventDetailState("")
  \/ ClearAllEventDetailStates

SpecDetail == InitDetail /\ [][NextDetail]_vars

----------------------------------------------------------------------------
(* Claims about the size of the map of event detail states *)

(* C40: the map of event detail states never holds more than MAX_STATES
   entries, and a state requested for a new user while the map is full takes
   the place of the entry inserted earliest, whether or not that entry was
   read since. *)
C40_AtMostMaxStates ==
  /\ Len(states) <= MAX_STATES
  /\ (ret.op = "get" /\ ~ret.had /\ ret.size >= MAX_STATES)
     => /\ ~StatesHas(states, ret.oldest)
        /\ states[Len(states)] = ret.userId

(* The state of the empty user id is the oldest of a full map, and the state
   of one more user was requested: nothing was evicted *)
C40_MapOverfull ==
  /\ ret.op = "get" /\ ret.userId # "" /\ ~ret.had
  /\ ret.size = MAX_STATES
  /\ ret.oldest = ""
  /\ Head(states) = ""
  /\ states[Len(states)] = ret.userId
  /\ Len(states) > MAX_STATES

====
